---------------------------- MODULE Spec2Model ----------------------------
(***************************************************************************)
(* Verification model of the circular-music audio-graph core: the audio    *)
(* provider and its mixer, the playgrounds that drive it, the trigger      *)
(* voice, the melody sequencer, the granular voice and the resonator.      *)
(*                                                                         *)
(* Numbers that the program keeps as fractions are kept as integers in     *)
(* thousandths: a gain of 0.5 is 500, a time of 0.02 s is 20, a pitch of   *)
(* 3.5 is 3500, a length of 220.5 samples is 220500.                       *)
(***************************************************************************)
EXTENDS Integers, Sequences, FiniteSets, TLC

(***************************************************************************)
(* Bounds of the model.                                                    *)
(***************************************************************************)
MaxInits == 2   \* initialize() calls that get past the ctxRef guard
MaxCalls == 3   \* setSource / removeSource / silence calls in one run
MaxEvents == 4  \* pointer and click events of the trigger playground in one run
MaxSamples == 8000 \* audio samples a grain voice is run for

VARIABLES
  \* ---- AudioProvider (use-audio, mixer version) ----
  ctxRef,        \* ctxRef.current: 0 (null) or the id of an AudioContext
  coreRef,       \* coreRef.current: 0 (null) or the id of a WebRenderer
  isReady,       \* React state set by the runtime's "load" event
  created,       \* number of AudioContext/WebRenderer pairs constructed
  pendingInit,   \* initialize() calls awaiting core.initialize()
  loaded,        \* renderers whose "load" event has fired
  sources,       \* sourcesRef.current: the Map, in insertion order
  vfs,           \* per renderer, the paths registered in its virtual file system
  lastSubmitted, \* the last (core, left, right) handed to core.render
  nSubmitted,    \* number of core.render calls made by the mixer
  calls,         \* number of setSource / removeSource / silence calls
  lastCall,      \* the last such call: its operation, id, and coreRef at the call
  \* ---- trigger playground (AudioPlayground with audio.render) ----
  tIsReady,      \* audio.isReady as the playground sees it
  isGateOpen,    \* isGateOpen.current
  currentGateRef,\* currentGateRef.current
  diffuseActiveRef, \* diffuseActiveRef.current
  rafQueue,      \* requestAnimationFrame callbacks not yet run: their pointer-downs
  frame,         \* number of animation frames that have run callbacks
  events,        \* number of UI events handled
  gateLog,       \* the submissions made through audio.render, oldest first
  lastPointer,   \* the last pointer event the button delivered: none, down, up
  \* ---- one grain voice of createGranular, run sample by sample ----
  gPc,           \* "params": nothing built; "built": graph built; "running"
  gParams,       \* the GranularParams handed to createGranular
  gVoice,        \* voiceIndex of the voice that is run
  gN,            \* samples run so far
  gPhasor,       \* the trigger train's phasor, in units of 1 / TrainDen
  gTrain,        \* the trigger train's last output (0 or 1)
  gPitchRand,    \* the latched pitchRand, in thousandths
  gPhase,        \* the phase accumulator, in units of 1 / grainSizeSamples
  \* ---- the resonator run by the signal runtime ----
  rParams,       \* the ResonatorParams of the last createResonator call
  rMix,          \* the state of the mix smoother, in thousandths
  rInput,        \* the current input sample of each channel
  rBand,         \* the current output of each band-pass filter of each channel
  \* ---- the melody's two sequencers run by the signal runtime ----
  mN,            \* the number of clock periods processed
  mLoopPhasor,   \* the phasor of the loop trigger, in units of 1 / TOTAL_TICKS
  mLoopTrain,    \* the last value of the loop trigger
  mFreqSeq,      \* the frequency sequencer: its tick time and its output
  mGateSeq,      \* the gate sequencer: its tick time and its output
  mFirstFreq,    \* a frequency sequencer in its first iteration, at the same tick
  mFirstGate,    \* a gate sequencer in its first iteration, at the same tick
  mDup,          \* which of two events at one tick time the runtime keeps
  mImpl,         \* how the runtime takes a value: by lookup or event by event
  \* ---- the granular/resonator playground page ----
  started,           \* HomeComponent's state
  samplesLoaded,     \* HomeComponent's state
  sampleData,        \* the module-level record: sample id -> length, 0 for null
  startPc,           \* where the handleStart call that created core c stands
  vfsEntries,        \* loadSamples' local record of that call: the ids decoded
  isPlaying,         \* AudioPlayground's state
  isResonatorPlaying,
  selectedSample,
  pitch,
  envelope,
  \* ---- one Diffuse World voice run by the signal runtime ----
  dOptions,      \* the DiffuseVoiceOptions of the voice
  dN,            \* the number of steps of 1/20 s processed
  dPhasor,       \* the phasor of the voice's clock, in units of 1 / 20000
  dClock,        \* the clock (el.train) of the voice
  dChance,       \* triggerChance: the random value latched on the clock
  dTrigger,      \* the combined trigger
  dFreqRand,     \* what the latch of the filter's random value holds (thousandths)
  \* ---- one createEnvelope graph run by the signal runtime ----
  eOptions,      \* sustain and sustainTickTime of the envelope
  eGate,         \* the value of the gate constant as last rendered
  eGateSeen,     \* the gate value the runtime used on its last step
  eSeq,          \* the sequencer: its tick time and its output
  eTarget,       \* gate x sequence value on the last step
  eSince,        \* clock ticks counted since the gate's last rising edge
  eN,            \* the number of steps processed
  \* ---- calls of the generators ----
  genLog,        \* the calls made so far: generator, arguments, returned pair
  \* ---- resonator-melody.ts: pick ----
  pkBand,        \* the band index pick is called with
  pkPeriod,      \* the period pick was last called with
  pkWindow,      \* the notes pick returned for the last periods (at most 8)
  \* ---- resonator-melody.ts: the two functions of time ----
  rtTime,        \* the time argument, in tenths of a second
  rtNext,        \* getNextChangeTime(rtTime)
  rtParams,      \* getResonatorParamsAtTime(rtTime)
  \* ---- useShorelineAudio (shoreline-audio.tsx) ----
  shMounted,     \* the component using the hook is mounted
  startedRef,    \* startedRef.current
  shPc,          \* where start() stands: idle, initialize, fetch, decode, done
  sampleLength,  \* the module-level sampleLength: 0 (null) or a length
  rafRef,        \* rafRef.current: 0 or the id of the last frame requested
  rafCount,      \* the number of animation frames requested so far
  rafPending,    \* 0 or the id of the frame request that is scheduled
  startTimeRef,  \* startTimeRef.current, in tenths of a second
  nextChangeRef, \* nextChangeRef.current, in tenths of a second
  shNow,         \* performance.now(), in tenths of a second
  shElapsed,     \* elapsed as the last animation-frame callback computed it
  shParams,      \* the resonator params last passed to setSource
  shFrames       \* the number of animation-frame callbacks run so far

mixerVars == <<ctxRef, coreRef, isReady, created, pendingInit, loaded, sources,
               vfs, lastSubmitted, nSubmitted, calls, lastCall>>

trigVars == <<tIsReady, isGateOpen, currentGateRef, diffuseActiveRef, rafQueue,
              frame, events, gateLog, lastPointer>>

grainVars == <<gPc, gParams, gVoice, gN, gPhasor, gTrain, gPitchRand, gPhase>>

resVars == <<rParams, rMix, rInput, rBand>>

melVars == <<mN, mLoopPhasor, mLoopTrain, mFreqSeq, mGateSeq, mFirstFreq,
             mFirstGate, mDup, mImpl>>

pgVars == <<started, samplesLoaded, sampleData, startPc, vfsEntries, isPlaying,
            isResonatorPlaying, selectedSample, pitch, envelope>>

difVars == <<dOptions, dN, dPhasor, dClock, dChance, dTrigger, dFreqRand>>

envVars == <<eOptions, eGate, eGateSeen, eSeq, eTarget, eSince, eN>>

rmVars == <<pkBand, pkPeriod, pkWindow, rtTime, rtNext, rtParams>>

shVars == <<shMounted, startedRef, shPc, sampleLength, rafRef, rafCount, rafPending,
            startTimeRef, nextChangeRef, shNow, shElapsed, shParams, shFrames>>

vars == <<mixerVars, trigVars, grainVars, resVars, melVars, pgVars, difVars,
          envVars, genLog, rmVars, shVars>>

(***************************************************************************)
(* Graph nodes of the signal runtime's expression language (el).  Every    *)
(* node has the same four fields so that graphs can be compared.           *)
(***************************************************************************)
Node(op, key, value, args) == [op |-> op, key |-> key, value |-> value, args |-> args]

NoKey == <<>>

el_const(key, value) == Node("const", key, value, <<>>)
el_add(a, b) == Node("add", NoKey, 0, <<a, b>>)
el_sub(a, b) == Node("sub", NoKey, 0, <<a, b>>)
el_mul(a, b) == Node("mul", NoKey, 0, <<a, b>>)
el_div(a, b) == Node("div", NoKey, 0, <<a, b>>)
el_smooth(p, x) == Node("smooth", NoKey, 0, <<p, x>>)
el_tau2pole(ms) == Node("tau2pole", NoKey, ms, <<>>)
\* a signal handed in by the caller of the mixer
el_in(name, channel) == Node("in", <<name, channel>>, 0, <<>>)

NoGraph == Node("none", NoKey, 0, <<>>)

(***************************************************************************)
(* More nodes of the expression language, used by the generators.  A       *)
(* JavaScript number passed to el is a constant node without a key.        *)
(***************************************************************************)
num(v) == el_const(NoKey, v)
el_min(a, b) == Node("min", NoKey, 0, <<a, b>>)
el_max(a, b) == Node("max", NoKey, 0, <<a, b>>)
el_le(a, b) == Node("le", NoKey, 0, <<a, b>>)
el_mod(a, b) == Node("mod", NoKey, 0, <<a, b>>)
el_cos(a) == Node("cos", NoKey, 0, <<a>>)
el_sin(a) == Node("sin", NoKey, 0, <<a>>)
el_train(rate) == Node("train", NoKey, 0, <<rate>>)
el_phasor(rate) == Node("phasor", NoKey, 0, <<rate>>)
el_latch(t, x) == Node("latch", NoKey, 0, <<t, x>>)
el_rand(key) == Node("rand", key, 0, <<>>)
el_accum(x, reset) == Node("accum", NoKey, 0, <<x, reset>>)
\* el.table({path}, position): the path is kept in the key field
\* el.table({path}, pos); the path is kept in the key field
el_table(path, pos) == Node("table", <<path>>, 0, <<pos>>)
el_bandpass(fc, q, x) == Node("bandpass", NoKey, 0, <<fc, q, x>>)

\* 2 * Math.PI and Math.PI / 2, in thousandths
TwoPi == 6283
HalfPi == 1571

(***************************************************************************)
(* granular.ts                                                             *)
(***************************************************************************)
SAMPLE_RATE == 44100

\* multipliers under which the voices 0 and 7 run at the same rate
RATE_MULTIPLIERS_Lockstep == <<1000, 1030, 970, 1070, 930, 1110, 890, 1000>>

\* RATE_MULTIPLIERS, in thousandths, for voices 0..7
RATE_MULTIPLIERS == <<1000, 1030, 970, 1070, 930, 1110, 890, 1010>>

VoiceNames == <<"v0", "v1", "v2", "v3", "v4", "v5", "v6", "v7">>

hannEnvelope(phase) ==
  el_mul(num(500), el_sub(num(1000), el_cos(el_mul(num(TwoPi), phase))))

trapezoidEnvelope(phase) ==
  LET attack == el_min(num(1000), el_div(phase, num(100)))
      release == el_min(num(1000), el_div(el_sub(num(1000), phase), num(100)))
  IN el_min(attack, release)

grainEnvelope(phase, type) ==
  IF type = "trapezoid" THEN trapezoidEnvelope(phase) ELSE hannEnvelope(phase)

\* (grainSize / 1000) * SAMPLE_RATE, in thousandths of a sample
grainSizeSamplesOf(grainSize) == grainSize * SAMPLE_RATE

\* (density / 8) * RATE_MULTIPLIERS[voiceIndex], in units of 1/8000 Hz
voiceTriggerHzOf(density, voiceIndex) == density * RATE_MULTIPLIERS[voiceIndex + 1]

\* createGrainVoice(voiceKey, voiceIndex, params, sampleLengthSamples);
\* voiceKey is a key, params.grainSize in ms, params.density in Hz, the other
\* numbers of params in thousandths, sampleLengthSamples in samples.
createGrainVoice(voiceKey, voiceIndex, params, sampleLengthSamples) ==
  LET grainSizeSamples == grainSizeSamplesOf(params.grainSize)
      trigger == el_train(num(voiceTriggerHzOf(params.density, voiceIndex)))
      posRand == el_latch(trigger, el_rand(Append(voiceKey, "posRand")))
      pitchRand == el_latch(trigger, el_rand(Append(voiceKey, "pitchRand")))
      panRand == el_latch(trigger, el_rand(Append(voiceKey, "panRand")))
      posOffset == el_mul(num(params.positionSpray),
                          el_sub(el_mul(num(2000), posRand), num(1000)))
      grainPosition == el_add(num(params.position), posOffset)
      clampedPosition == el_max(num(0), el_min(num(1000), grainPosition))
      pitchOffset == el_mul(el_mul(num(params.pitchSpray), num(500)),
                            el_sub(el_mul(num(2000), pitchRand), num(1000)))
      pitchRatio == el_mul(num(params.pitch), el_add(num(1000), pitchOffset))
      phaseIncrement == el_div(pitchRatio, num(grainSizeSamples))
      phase == el_accum(phaseIncrement, trigger)
      grainActive == el_le(phase, num(1000))
      baseSamplePos == el_mul(clampedPosition, num(sampleLengthSamples * 1000))
      grainLengthInSamples ==
        el_mul(el_div(num(grainSizeSamples), num(params.pitch)), pitchRatio)
      sampleOffset == el_mul(phase, grainLengthInSamples)
      readPosition == el_add(baseSamplePos, sampleOffset)
      normalizedReadPos ==
        el_mod(el_div(readPosition, num(sampleLengthSamples * 1000)), num(1000))
      sampleValue == el_table(params.samplePath, normalizedReadPos)
      env == grainEnvelope(phase, params.envelope)
      gatedEnv == el_mul(env, grainActive)
      grainOutput == el_mul(sampleValue, gatedEnv)
      panOffset == el_mul(num(params.stereoSpread), el_sub(panRand, num(500)))
      panPosition == el_add(num(500), panOffset)
      panAngle == el_mul(panPosition, num(HalfPi))
      leftGain == el_cos(panAngle)
      rightGain == el_sin(panAngle)
  IN [left |-> el_mul(grainOutput, leftGain),
      right |-> el_mul(grainOutput, rightGain)]

RECURSIVE sumVoices(_, _, _)
sumVoices(voices, ch, i) ==
  IF i = 1 THEN voices[1][ch]
  ELSE el_add(sumVoices(voices, ch, i - 1), voices[i][ch])

\* a generator that numbers its voices' keys by the calls made before
createGranularCounting(key, params, sampleLengthSamples) ==
  LET voices == [i \in 1..8 |->
                   createGrainVoice(Append(key, VoiceNames[Len(genLog) + 1]), i - 1,
                                    params, sampleLengthSamples)]
      smoothedGainG == el_smooth(el_tau2pole(20),
                                 el_const(Append(key, "gain"), params.gain))
  IN [left |-> el_mul(smoothedGainG, sumVoices(voices, "left", 8)),
      right |-> el_mul(smoothedGainG, sumVoices(voices, "right", 8))]

\* createGranular(key, params, sampleLengthSamples)
createGranular(key, params, sampleLengthSamples) ==
  LET voices == [i \in 1..8 |->
                   createGrainVoice(Append(key, VoiceNames[i]), i - 1, params,
                                    sampleLengthSamples)]
      smoothedGainG == el_smooth(el_tau2pole(20),
                                 el_const(Append(key, "gain"), params.gain))
  IN [left |-> el_mul(smoothedGainG, sumVoices(voices, "left", 8)),
      right |-> el_mul(smoothedGainG, sumVoices(voices, "right", 8))]

(***************************************************************************)
(* resonator.ts                                                            *)
(***************************************************************************)
BandNames == <<"b0", "b1", "b2">>

bandOutput(key, params, input, i) ==
  LET band == params.bands[i]
      freq == el_const(key \o <<BandNames[i], "freq">>, band.freq)
      q == el_const(key \o <<BandNames[i], "q">>, band.q)
      gain == el_const(key \o <<BandNames[i], "gain">>, band.gain)
      filtered == el_bandpass(freq, q, input)
  IN el_mul(filtered, gain)

processChannelSwapped(key, params, input) ==
  LET wet == el_add(el_add(bandOutput(key, params, input, 1),
                           bandOutput(key, params, input, 2)),
                    bandOutput(key, params, input, 3))
      mix == el_smooth(el_tau2pole(20), el_const(Append(key, "mix"), params.mix))
      dry == el_mul(input, mix)
      wetMixed == el_mul(wet, el_sub(num(1000), mix))
  IN el_add(dry, wetMixed)

\* processChannel(key, params, input); a key "a:b:c" is the tuple <<"a", "b", "c">>
processChannel(key, params, input) ==
  LET wet == el_add(el_add(bandOutput(key, params, input, 1),
                           bandOutput(key, params, input, 2)),
                    bandOutput(key, params, input, 3))
      mix == el_smooth(el_tau2pole(20), el_const(Append(key, "mix"), params.mix))
      dry == el_mul(input, el_sub(num(1000), mix))
      wetMixed == el_mul(wet, mix)
  IN el_add(dry, wetMixed)

\* a resonator whose two channels share the left channel's keys
createResonatorShared(key, params, input) ==
  [left |-> processChannel(Append(key, "L"), params, input.left),
   right |-> processChannel(Append(key, "L"), params, input.right)]

\* createResonator(key, params, input)
createResonator(key, params, input) ==
  [left |-> processChannel(Append(key, "L"), params, input.left),
   right |-> processChannel(Append(key, "R"), params, input.right)]

(***************************************************************************)
(* The mixer's inputs in this model.                                       *)
(***************************************************************************)
SourceIds == {"granular", "resonator"}
SignalNames == {"sigA", "sigB"}
Signal(name) == [left |-> el_in(name, "L"), right |-> el_in(name, "R")]
Gains == {0, 500}

(***************************************************************************)
(* JavaScript Map operations on sourcesRef.current.  The Map is kept as    *)
(* the sequence of its entries in insertion order.                         *)
(***************************************************************************)
MapHas(m, id) == \E i \in DOMAIN m : m[i].id = id

MapSetAppend(m, id, entry) == Append(m, [id |-> id, entry |-> entry])

MapSet(m, id, entry) ==
  IF MapHas(m, id)
    THEN [i \in DOMAIN m |-> IF m[i].id = id THEN [id |-> id, entry |-> entry] ELSE m[i]]
    ELSE Append(m, [id |-> id, entry |-> entry])

MapDelete(m, id) == SelectSeq(m, LAMBDA e : e.id # id)

MapClearKeep(m) == m

MapClear(m) == <<>>

(***************************************************************************)
(* renderMix: the pair handed to core.render for a given Map.              *)
(***************************************************************************)
smoothedGain(id, gain) ==
  el_smooth(el_tau2pole(20), el_const(<<"mixer", "gain", id>>, gain))

processedLeft(e) == el_mul(e.entry.signal.left, smoothedGain(e.id, e.entry.gain))
processedRight(e) == el_mul(e.entry.signal.right, smoothedGain(e.id, e.entry.gain))

RECURSIVE reduceAdd(_, _)
reduceAdd(terms, sum) ==
  IF terms = <<>> THEN sum ELSE reduceAdd(Tail(terms), el_add(sum, Head(terms)))

mixPairStale(m) ==
  IF Len(m) = 0
    THEN [left |-> el_const(NoKey, 0), right |-> el_const(NoKey, 0)]
    ELSE [left |-> reduceAdd([i \in 1..(Len(m) - 1) |-> processedLeft(m[i])], el_const(NoKey, 0)),
          right |-> reduceAdd([i \in 1..(Len(m) - 1) |-> processedRight(m[i])], el_const(NoKey, 0))]

\* a mix in which the source inserted last replaces the ones before it
mixPairLastWins(m) ==
  IF Len(m) = 0
    THEN [left |-> el_const(NoKey, 0), right |-> el_const(NoKey, 0)]
    ELSE [left |-> reduceAdd(<<processedLeft(m[Len(m)])>>, el_const(NoKey, 0)),
          right |-> reduceAdd(<<processedRight(m[Len(m)])>>, el_const(NoKey, 0))]

mixPair(m) ==
  IF Len(m) = 0
    THEN [left |-> el_const(NoKey, 0), right |-> el_const(NoKey, 0)]
    ELSE [left |-> reduceAdd([i \in DOMAIN m |-> processedLeft(m[i])], el_const(NoKey, 0)),
          right |-> reduceAdd([i \in DOMAIN m |-> processedRight(m[i])], el_const(NoKey, 0))]

\* renderMix as a step: with no renderer it returns early, else it submits
\* the pair computed from the Map as it is after the mutation (m).
renderMix(m) ==
  IF coreRef = 0
    THEN UNCHANGED <<lastSubmitted, nSubmitted>>
    ELSE /\ lastSubmitted' = [core |-> coreRef, left |-> mixPair(m).left,
                              right |-> mixPair(m).right]
         /\ nSubmitted' = nSubmitted + 1

NoSignal == [left |-> NoGraph, right |-> NoGraph]

NoCall ==
  [op |-> "none", id |-> "", core |-> 0, signal |-> NoSignal, gain |-> 0,
   had |-> FALSE, sizeBefore |-> 0]

\* bookkeeping of the call being made (not program state)
noteCall(op, id, signal, gain) ==
  /\ calls < MaxCalls
  /\ calls' = calls + 1
  /\ lastCall' = [op |-> op, id |-> id, core |-> coreRef, signal |-> signal,
                  gain |-> gain, had |-> MapHas(sources, id),
                  sizeBefore |-> Len(sources)]

(***************************************************************************)
(* The provider's operations.                                              *)
(***************************************************************************)
\* initialize(), up to the await of core.initialize()
initializeBegin ==
  /\ ctxRef = 0
  /\ created < MaxInits
  /\ created' = created + 1
  /\ pendingInit' = pendingInit \cup {created + 1}
  /\ UNCHANGED <<ctxRef, coreRef, isReady, loaded, sources, vfs, lastSubmitted,
                 nSubmitted, calls, lastCall>>

\* initialize(), after the await: the refs are set
initializeResolve(c) ==
  /\ c \in pendingInit
  /\ pendingInit' = pendingInit \ {c}
  /\ ctxRef' = c
  /\ coreRef' = c
  /\ UNCHANGED <<isReady, created, loaded, sources, vfs, lastSubmitted,
                 nSubmitted, calls, lastCall>>

\* core.on("load", ...)
onLoad(c) ==
  /\ c \in 1..created
  /\ c \notin loaded
  /\ loaded' = loaded \cup {c}
  /\ isReady' = TRUE
  /\ UNCHANGED <<ctxRef, coreRef, created, pendingInit, sources, vfs,
                 lastSubmitted, nSubmitted, calls, lastCall>>

setSource(id, signal, gain) ==
  /\ noteCall("set", id, signal, gain)
  /\ sources' = MapSet(sources, id, [signal |-> signal, gain |-> gain])
  /\ renderMix(sources')

removeSourceNoRender(id) ==
  /\ noteCall("remove", id, NoSignal, 0)
  /\ sources' = MapDelete(sources, id)
  /\ UNCHANGED <<lastSubmitted, nSubmitted>>

removeSource(id) ==
  /\ noteCall("remove", id, NoSignal, 0)
  /\ sources' = MapDelete(sources, id)
  /\ renderMix(sources')

silence ==
  /\ noteCall("silence", "", NoSignal, 0)
  /\ sources' = MapClear(sources)
  /\ renderMix(sources')

updateVirtualFileSystem(paths) ==
  vfs' = IF coreRef = 0 THEN vfs
         ELSE [vfs EXCEPT ![coreRef] = vfs[coreRef] \cup paths]

(***************************************************************************)
(* Spec: the provider driven by arbitrary callers.                         *)
(***************************************************************************)
providerUnchanged == UNCHANGED <<ctxRef, coreRef, isReady, created, pendingInit, loaded>>

InitMixer ==
  /\ ctxRef = 0
  /\ coreRef = 0
  /\ isReady = FALSE
  /\ created = 0
  /\ pendingInit = {}
  /\ loaded = {}
  /\ sources = <<>>
  /\ vfs = [c \in 1..(MaxInits + 1) |-> {}]
  /\ lastSubmitted = [core |-> 0, left |-> NoGraph, right |-> NoGraph]
  /\ nSubmitted = 0
  /\ calls = 0
  /\ lastCall = NoCall

InitTrigger ==
  /\ tIsReady = FALSE
  /\ isGateOpen = FALSE
  /\ currentGateRef = 0
  /\ diffuseActiveRef = FALSE
  /\ rafQueue = <<>>
  /\ frame = 0
  /\ events = 0
  /\ gateLog = <<>>
  /\ lastPointer = "none"

DefaultGranularParams ==
  [samplePath |-> "/samples/acadia", grainSize |-> 25, density |-> 10,
   position |-> 500, pitch |-> 1000, positionSpray |-> 100, pitchSpray |-> 50,
   stereoSpread |-> 500, gain |-> 500, envelope |-> "hann"]

InitGrainIdle ==
  /\ gPc = "params"
  /\ gParams = DefaultGranularParams
  /\ gVoice = 0
  /\ gN = 0
  /\ gPhasor = 0
  /\ gTrain = 0
  /\ gPitchRand = 0
  /\ gPhase = 0

\* the resonator parameters the playground starts with
DefaultResonatorParams ==
  [bands |-> <<[freq |-> 220000, q |-> 80000, gain |-> 800],
               [freq |-> 440000, q |-> 80000, gain |-> 600],
               [freq |-> 880000, q |-> 80000, gain |-> 400]>>,
   mix |-> 700]

InitResonator ==
  /\ rParams = DefaultResonatorParams
  /\ rMix = 0
  /\ rInput = [L |-> 0, R |-> 0]
  /\ rBand = [L |-> <<0, 0, 0>>, R |-> <<0, 0, 0>>]

\* a sequencer before its first sample
FreshSeq == [tickTime |-> 0, value |-> 0]

InitMelodyWith(dup, impl) ==
  /\ mN = 0
  /\ mLoopPhasor = 0
  /\ mLoopTrain = 0
  /\ mFreqSeq = FreshSeq
  /\ mGateSeq = FreshSeq
  /\ mFirstFreq = FreshSeq
  /\ mFirstGate = FreshSeq
  /\ mDup = dup
  /\ mImpl = impl

InitMelodyIdle == InitMelodyWith("first", "lookup")

\* AUDIO_SAMPLES
SampleIds == {"acadia", "circle"}

InitPlayground ==
  /\ started = FALSE
  /\ samplesLoaded = FALSE
  /\ sampleData = [id \in SampleIds |-> 0]
  /\ startPc = [c \in 1..(MaxInits + 1) |-> "none"]
  /\ vfsEntries = [c \in 1..(MaxInits + 1) |-> {}]
  /\ isPlaying = FALSE
  /\ isResonatorPlaying = FALSE
  /\ selectedSample = "acadia"
  /\ pitch = DefaultGranularParams.pitch
  /\ envelope = DefaultGranularParams.envelope

\* the roster of createDiffuseWorld; rates in thousandths of a hertz,
\* probabilities and gains in thousandths, durations in ticks
DiffuseRoster ==
  <<[key |-> "v1", triggerRate |-> 700, probability |-> 250, minFreq |-> 200,
     maxFreq |-> 800, burstDuration |-> 180, gain |-> 150],
    [key |-> "v2", triggerRate |-> 1300, probability |-> 200, minFreq |-> 600,
     maxFreq |-> 2000, burstDuration |-> 100, gain |-> 120],
    [key |-> "v3", triggerRate |-> 2100, probability |-> 150, minFreq |-> 1500,
     maxFreq |-> 4000, burstDuration |-> 60, gain |-> 80],
    [key |-> "v4", triggerRate |-> 400, probability |-> 300, minFreq |-> 150,
     maxFreq |-> 400, burstDuration |-> 200, gain |-> 100],
    [key |-> "v5", triggerRate |-> 3700, probability |-> 80, minFreq |-> 2500,
     maxFreq |-> 5000, burstDuration |-> 30, gain |-> 60]>>

InitDiffuseWith(options) ==
  /\ dOptions = options
  /\ dN = 0
  /\ dPhasor = 0
  /\ dClock = 0
  /\ dChance = 0
  /\ dTrigger = 0
  /\ dFreqRand = 0

\* createEnvelope's options as the trigger voice passes them
TriggerEnvelopeOptions == [sustain |-> 150, sustainTickTime |-> 30]

InitEnvelopeWith(options) ==
  /\ eOptions = options
  /\ eGate = 0
  /\ eGateSeen = 0
  /\ eSeq = FreshSeq
  /\ eTarget = 0
  /\ eSince = 0
  /\ eN = 0

\* the parts of the model that a specification leaves at rest
InitPickWith(band, period) ==
  /\ pkBand = band
  /\ pkPeriod = period
  /\ pkWindow = <<>>

NoParams == [bands |-> <<>>, mix |-> 0]

InitTimesIdle ==
  /\ rtTime = 0
  /\ rtNext = 0
  /\ rtParams = NoParams

InitShoreline ==
  /\ shMounted = TRUE
  /\ startedRef = FALSE
  /\ shPc = "idle"
  /\ sampleLength = 0
  /\ rafRef = 0
  /\ rafCount = 0
  /\ rafPending = 0
  /\ startTimeRef = 0
  /\ nextChangeRef = 0
  /\ shNow = 0
  /\ shElapsed = 0
  /\ shParams = NoParams
  /\ shFrames = 0

InitResonatorMelodyIdle == InitPickWith(0, 0) /\ InitTimesIdle /\ InitShoreline

InitRest ==
  /\ InitDiffuseWith(DiffuseRoster[1])
  /\ InitEnvelopeWith(TriggerEnvelopeOptions)
  /\ genLog = <<>>
  /\ InitResonatorMelodyIdle

InitIdle ==
  InitTrigger /\ InitGrainIdle /\ InitResonator /\ InitMelodyIdle /\ InitPlayground
    /\ InitRest

OnlyMixer ==
  UNCHANGED <<trigVars, grainVars, resVars, melVars, pgVars, difVars, envVars,
              genLog, rmVars, shVars>>

Init == InitMixer /\ InitIdle

Initialize == initializeBegin /\ OnlyMixer

InitializeResolve == (\E c \in 1..MaxInits + 1 : initializeResolve(c)) /\ OnlyMixer

OnLoad == (\E c \in 1..MaxInits + 1 : onLoad(c)) /\ OnlyMixer

SetSource ==
  \E id \in SourceIds, s \in SignalNames, g \in Gains :
    /\ setSource(id, Signal(s), g)
    /\ providerUnchanged /\ UNCHANGED vfs /\ OnlyMixer

RemoveSource ==
  \E id \in SourceIds :
    /\ removeSource(id)
    /\ providerUnchanged /\ UNCHANGED vfs /\ OnlyMixer

Silence ==
  /\ silence
  /\ providerUnchanged /\ UNCHANGED vfs /\ OnlyMixer

Next ==
  \/ Initialize
  \/ InitializeResolve
  \/ OnLoad
  \/ SetSource
  \/ RemoveSource
  \/ Silence

Spec == Init /\ [][Next]_vars

(***************************************************************************)
(* Reading a submitted mix back: the terms of the left-nested sum that     *)
(* renderMix's reduce builds, its base, and the source ids of its gains.   *)
(***************************************************************************)
RECURSIVE MixTerms(_)
MixTerms(g) == IF g.op = "add" THEN MixTerms(g.args[1]) \cup {g.args[2]} ELSE {}

RECURSIVE MixBase(_)
MixBase(g) == IF g.op = "add" THEN MixBase(g.args[1]) ELSE g

RECURSIVE MixCount(_)
MixCount(g) == IF g.op = "add" THEN MixCount(g.args[1]) + 1 ELSE 0

ExactZero(g) == g.op = "const" /\ g.value = 0 /\ g.args = <<>>

\* signal x smooth(tau2pole(20 ms), const{key: mixer:gain:<id>, value: gain})
IsGainTerm(t, sig, id, gain) ==
  /\ t.op = "mul"
  /\ t.args[1] = sig
  /\ t.args[2].op = "smooth"
  /\ t.args[2].args[1].op = "tau2pole" /\ t.args[2].args[1].value = 20
  /\ t.args[2].args[2].op = "const"
  /\ t.args[2].args[2].key = <<"mixer", "gain", id>>
  /\ t.args[2].args[2].value = gain

MixIds(g) == {t.args[2].args[2].key[3] : t \in MixTerms(g)}

Ids(m) == {m[i].id : i \in DOMAIN m}

EntryOf(m, id) == m[CHOOSE i \in DOMAIN m : m[i].id = id].entry

UniqueIds(m) == \A i, j \in DOMAIN m : m[i].id = m[j].id => i = j

\* channel ch of g is the sum over exactly the ids of m of signal x smoothed gain
SumOverMap(g, m, ch) ==
  /\ ExactZero(MixBase(g))
  /\ MixCount(g) = Cardinality(Ids(m))
  /\ \A id \in Ids(m) :
       \E t \in MixTerms(g) :
         IsGainTerm(t, EntryOf(m, id).signal[ch], id, EntryOf(m, id).gain)
  /\ \A t \in MixTerms(g) : t.args[2].args[2].key[3] \in Ids(m)

MixCorresponds(sub, m) ==
  IF m = <<>>
    THEN ExactZero(sub.left) /\ ExactZero(sub.right)
    ELSE SumOverMap(sub.left, m, "left") /\ SumOverMap(sub.right, m, "right")

(***************************************************************************)
(* C1: after any sequence of setSource/removeSource calls on an            *)
(* initialized mixer whose map is not empty, each channel of the submitted *)
(* graph is the sum, over exactly the ids in the map, of that source's     *)
(* channel signal times a 20 ms smoothed gain keyed mixer:gain:<id> with   *)
(* the source's current gain; a removed id contributes no term.            *)
(***************************************************************************)
C1_MixIsGainScaledSum ==
  (lastCall.op \in {"set", "remove"} /\ lastCall.core # 0 /\ sources # <<>>)
    => /\ SumOverMap(lastSubmitted.left, sources, "left")
       /\ SumOverMap(lastSubmitted.right, sources, "right")

\* a source was removed from a two-source mix on an initialized mixer
C1_Witness ==
  /\ lastCall.op = "remove" /\ lastCall.core # 0 /\ lastCall.had
  /\ lastCall.sizeBefore = 2 /\ Len(sources) = 1

(***************************************************************************)
(* C2: silence() always leaves the source map empty, and whenever the map  *)
(* is empty when the mix is recomputed (after silence() or after           *)
(* removeSource removed the last source) the pair submitted is the exact   *)
(* constant 0 on both channels, not a sum of gain-scaled terms.            *)
(***************************************************************************)
C2_SilenceIsExactZero ==
  /\ lastCall.op = "silence" => sources = <<>>
  /\ (calls > 0 /\ lastCall.core # 0 /\ sources = <<>>)
       => /\ ExactZero(lastSubmitted.left) /\ MixCount(lastSubmitted.left) = 0
          /\ ExactZero(lastSubmitted.right) /\ MixCount(lastSubmitted.right) = 0

\* silence() was called on an initialized mixer holding two sources
C2_Witness ==
  /\ lastCall.op = "silence" /\ lastCall.core # 0 /\ lastCall.sizeBefore = 2

(***************************************************************************)
(* C3 as stated: every call of setSource, removeSource or silence, in      *)
(* every reachable state of the provider, submits one stereo pair, so the  *)
(* last submitted graph always corresponds to the map.                     *)
(***************************************************************************)
C3_EveryCallSubmits ==
  calls > 0 => (nSubmitted = calls /\ MixCorresponds(lastSubmitted, sources))

(***************************************************************************)
(* C3 amended: every call of setSource, removeSource or silence made while *)
(* a renderer is set (coreRef.current is not null) recomputes the full mix *)
(* and submits exactly one stereo pair to that renderer, which corresponds *)
(* to the map as the call leaves it; a call made before initialize() has   *)
(* set the renderer only changes the map and submits nothing.              *)
(***************************************************************************)
C3_CallSubmitsWhenInitialized ==
  [][calls' # calls =>
       IF coreRef # 0
         THEN /\ nSubmitted' = nSubmitted + 1
              /\ lastSubmitted'.core = coreRef
              /\ MixCorresponds(lastSubmitted', sources')
         ELSE UNCHANGED <<nSubmitted, lastSubmitted>>]_vars

\* calls were made both before and after the renderer was set
C3_Witness ==
  /\ calls >= 2 /\ lastCall.core # 0 /\ nSubmitted >= 1 /\ nSubmitted < calls
  /\ lastCall.op = "remove" /\ sources # <<>>

(***************************************************************************)
(* C4: the mixer holds at most one entry per id: setSource on an id        *)
(* already present replaces that entry's signal and gain (the latest call  *)
(* wins) without adding a second entry and without changing any other      *)
(* id's entry, removeSource(id) deletes only that id's entry, and an id is *)
(* part of the mix exactly when it is in the map.                          *)
(***************************************************************************)
OthersKept(m, n, id) ==
  \A o \in (Ids(m) \cup Ids(n)) \ {id} :
    o \in Ids(m) /\ o \in Ids(n) /\ EntryOf(m, o) = EntryOf(n, o)

C4_OneEntryPerId ==
  [][/\ UniqueIds(sources')
     /\ (calls' # calls /\ lastCall'.op = "set") =>
          /\ lastCall'.id \in Ids(sources')
          /\ EntryOf(sources', lastCall'.id) =
               [signal |-> lastCall'.signal, gain |-> lastCall'.gain]
          /\ OthersKept(sources, sources', lastCall'.id)
          /\ Len(sources') = Len(sources) + (IF lastCall'.had THEN 0 ELSE 1)
     /\ (calls' # calls /\ lastCall'.op = "remove") =>
          /\ lastCall'.id \notin Ids(sources')
          /\ OthersKept(sources, sources', lastCall'.id)
     /\ (calls' # calls /\ coreRef # 0) =>
          /\ MixIds(lastSubmitted'.left) = Ids(sources')
          /\ MixIds(lastSubmitted'.right) = Ids(sources')]_vars

\* setSource replaced the entry of an id that was present beside another id
C4_Witness ==
  /\ lastCall.op = "set" /\ lastCall.had /\ lastCall.sizeBefore = 2
  /\ lastCall.core # 0 /\ Len(sources) = 2

(***************************************************************************)
(* The trigger playground.  It is mounted once initialize() has resolved,  *)
(* so audio.render always has a renderer; what it submits is recorded by   *)
(* the value of the gate constant (key voice-0:gate) of the graph, the     *)
(* diffuse flag, the handler that made it, the pointer-down it belongs to  *)
(* and the animation frame it was made in.                                 *)
(***************************************************************************)
Submission(gate, cause, pd) ==
  [gate |-> gate, diffuse |-> diffuseActiveRef, cause |-> cause, pd |-> pd,
   frame |-> frame]

\* renderAudio(gate): createTriggerVoice(gate) + createDiffuseWorld, then audio.render
renderAudio(log, gate, cause, pd) == Append(log, Submission(gate, cause, pd))

\* number of pointer-downs that got past the guard so far
pointerDowns == Cardinality({i \in DOMAIN gateLog : gateLog[i].cause = "down"})

handlePointerDownNoZero ==
  /\ events < MaxEvents
  /\ events' = events + 1
  /\ IF ~tIsReady \/ isGateOpen
       THEN UNCHANGED <<currentGateRef, gateLog, rafQueue>>
       ELSE /\ currentGateRef' = 0
            /\ gateLog' = renderAudio(gateLog, 1, "down", pointerDowns + 1)
            /\ rafQueue' = Append(rafQueue, pointerDowns + 1)
  /\ lastPointer' = "down"
  /\ UNCHANGED <<tIsReady, isGateOpen, diffuseActiveRef, frame>>

handlePointerDown ==
  /\ events < MaxEvents
  /\ events' = events + 1
  /\ IF ~tIsReady \/ isGateOpen
       THEN UNCHANGED <<currentGateRef, gateLog, rafQueue>>
       ELSE /\ currentGateRef' = 0
            /\ gateLog' = renderAudio(gateLog, 0, "down", pointerDowns + 1)
            /\ rafQueue' = Append(rafQueue, pointerDowns + 1)
  /\ lastPointer' = "down"
  /\ UNCHANGED <<tIsReady, isGateOpen, diffuseActiveRef, frame>>

\* the callbacks handed to requestAnimationFrame, run in order in one frame
RECURSIVE runCallbacks(_, _, _)
runCallbacks(queue, log, f) ==
  IF queue = <<>> THEN log
  ELSE runCallbacks(Tail(queue),
                    Append(log, [gate |-> 1, diffuse |-> diffuseActiveRef,
                                 cause |-> "raf", pd |-> Head(queue), frame |-> f]),
                    f)

animationFrame ==
  /\ rafQueue # <<>>
  /\ frame' = frame + 1
  /\ gateLog' = runCallbacks(rafQueue, gateLog, frame + 1)
  /\ currentGateRef' = 1
  /\ isGateOpen' = TRUE
  /\ rafQueue' = <<>>
  /\ UNCHANGED <<tIsReady, diffuseActiveRef, events, lastPointer>>

\* onPointerUp and onPointerLeave
handlePointerUp ==
  /\ events < MaxEvents
  /\ events' = events + 1
  /\ IF ~isGateOpen
       THEN UNCHANGED <<currentGateRef, gateLog, isGateOpen>>
       ELSE /\ currentGateRef' = 0
            /\ gateLog' = renderAudio(gateLog, 0, "up", 0)
            /\ isGateOpen' = FALSE
  /\ lastPointer' = "up"
  /\ UNCHANGED <<tIsReady, diffuseActiveRef, rafQueue, frame>>

handleDiffuseToggle ==
  /\ events < MaxEvents
  /\ events' = events + 1
  /\ diffuseActiveRef' = ~diffuseActiveRef
  /\ gateLog' = IF tIsReady
                  THEN Append(gateLog, [gate |-> currentGateRef,
                                        diffuse |-> ~diffuseActiveRef,
                                        cause |-> "toggle", pd |-> 0, frame |-> frame])
                  ELSE gateLog
  /\ UNCHANGED <<tIsReady, isGateOpen, currentGateRef, rafQueue, frame, lastPointer>>

\* the runtime's "load" event sets isReady
triggerLoad ==
  /\ ~tIsReady
  /\ tIsReady' = TRUE
  /\ UNCHANGED <<isGateOpen, currentGateRef, diffuseActiveRef, rafQueue, frame,
                 events, gateLog, lastPointer>>

OnlyTrigger ==
  UNCHANGED <<mixerVars, grainVars, resVars, melVars, pgVars, difVars, envVars,
              genLog, rmVars, shVars>>

HandlePointerDown == handlePointerDown /\ OnlyTrigger
AnimationFrame == animationFrame /\ OnlyTrigger
HandlePointerUp == handlePointerUp /\ OnlyTrigger
HandleDiffuseToggle == handleDiffuseToggle /\ OnlyTrigger
TriggerLoad == triggerLoad /\ OnlyTrigger

NextTrigger ==
  \/ HandlePointerDown
  \/ AnimationFrame
  \/ HandlePointerUp
  \/ HandleDiffuseToggle
  \/ TriggerLoad

SpecTrigger == Init /\ [][NextTrigger]_vars

(***************************************************************************)
(* C5: in the trigger playground every gate=1 submission caused by a       *)
(* pointer-down is preceded by a gate=0 submission made for the same       *)
(* pointer-down in an earlier animation frame, and no gate=1 submission at *)
(* all is made without a gate=0 submission before it.                      *)
(***************************************************************************)
C5_ZeroBeforeOne ==
  \A i \in DOMAIN gateLog :
    /\ (gateLog[i].gate = 1 /\ gateLog[i].cause = "raf") =>
         \E j \in 1..(i - 1) :
           /\ gateLog[j].gate = 0
           /\ gateLog[j].cause = "down"
           /\ gateLog[j].pd = gateLog[i].pd
           /\ gateLog[j].frame < gateLog[i].frame
    /\ gateLog[i].gate = 1 => \E j \in 1..(i - 1) : gateLog[j].gate = 0

\* two pointer-downs were each followed by their gate=1 submission
C5_Witness ==
  \E i, j \in DOMAIN gateLog :
    /\ gateLog[i].cause = "raf" /\ gateLog[i].pd = 1
    /\ gateLog[j].cause = "raf" /\ gateLog[j].pd = 2

(***************************************************************************)
(* One grain voice run by the signal runtime, sample by sample, on exact   *)
(* fractions.  el.train(r) is el.le(el.phasor(r), 0.5); el.accum adds its  *)
(* input every sample and restarts from 0 on a rising edge of its reset;   *)
(* el.latch takes a new value on a rising edge; el.le(a, b) is a <= b.     *)
(***************************************************************************)
\* the phasor advances by voiceTriggerHz / SAMPLE_RATE per sample
TrainDen == 8000 * SAMPLE_RATE

Min(a, b) == IF a <= b THEN a ELSE b
Max(a, b) == IF a >= b THEN a ELSE b

RECURSIVE GCD(_, _)
GCD(a, b) == IF b = 0 THEN a ELSE GCD(b, a % b)

\* the parameter sets the voice is run on (slider values of the playground,
\* and a pitch of 0)
GrainParamSets ==
  { [DefaultGranularParams EXCEPT !.grainSize = 5, !.density = 50, !.pitch = 3500,
                                  !.pitchSpray = 0, !.envelope = "hann"],
    [DefaultGranularParams EXCEPT !.grainSize = 5, !.density = 50, !.pitch = 3500,
                                  !.pitchSpray = 0, !.envelope = "trapezoid"],
    [DefaultGranularParams EXCEPT !.grainSize = 5, !.density = 50, !.pitch = 1000,
                                  !.pitchSpray = 400, !.envelope = "hann"],
    [DefaultGranularParams EXCEPT !.grainSize = 5, !.density = 50, !.pitch = 1000,
                                  !.pitchSpray = 400, !.envelope = "trapezoid"],
    [DefaultGranularParams EXCEPT !.grainSize = 5, !.density = 50, !.pitch = 0,
                                  !.pitchSpray = 0, !.envelope = "hann"],
    [DefaultGranularParams EXCEPT !.density = 1] }

\* values el.rand can be latched at, in thousandths
RandValues == {0, 500, 750}

\* sample length handed to createGranular, in samples
\* the decoded lengths of the two samples, in samples
SampleLengths == [acadia |-> 4410, circle |-> 8820]

GrainSampleLength == SampleLengths.acadia

\* pitchOffset and pitchRatio as the graph computes them, in thousandths
pitchOffsetVal(params, pitchRand) ==
  (((params.pitchSpray * 500) \div 1000) * (2 * pitchRand - 1000)) \div 1000

pitchRatioVal(params, pitchRand) ==
  (params.pitch * (1000 + pitchOffsetVal(params, pitchRand))) \div 1000

\* grainLengthInSamples = (grainSizeSamples / pitch) * pitchRatio, in
\* thousandths of a sample; a division by 0 gives Infinity, and Infinity * 0 NaN
grainLengthInSamplesVal(params, pitchRand) ==
  IF params.pitch = 0
    THEN [nan |-> TRUE, val |-> 0]
    ELSE [nan |-> FALSE,
          val |-> (grainSizeSamplesOf(params.grainSize)
                     * pitchRatioVal(params, pitchRand)) \div params.pitch]

\* el.le(phase, 1): phase is ph / gss
grainActiveVal(ph, gss) == IF ph <= gss THEN 1 ELSE 0

\* a triangle: the two ramps without their ceiling of 1
trapezoidValUnclamped(a, b) ==
  Min((10000 * a) \div b, (10000 * (b - a)) \div b)

\* trapezoidEnvelope at phase a / b, in thousandths
trapezoidVal(a, b) ==
  Min(Min(1000, (10000 * a) \div b), Min(1000, (10000 * (b - a)) \div b))

\* hannEnvelope at phase a / b, in thousandths: 0.5 * (1 - cos(2 pi x)) is
\* sin(pi x) squared, with Bhaskara's rational approximation of the sine,
\* which is exact where the window is 0 and where it peaks
hannVal(a, b) ==
  LET x == a % b
      s == (1600 * x * (b - x)) \div (5 * b * b - 4 * x * (b - x))
  IN IF x = 0 THEN 0 ELSE Max(1, (s * s) \div 10)

envelopeVal(type, ph, gss) ==
  LET d == GCD(ph, gss)
  IN IF type = "trapezoid" THEN trapezoidVal(ph \div d, gss \div d)
     ELSE hannVal(ph \div d, gss \div d)

\* gatedEnv = el.mul(env, grainActive)
gatedEnvVal(type, ph, gss) == envelopeVal(type, ph, gss) * grainActiveVal(ph, gss)

\* createGranular(key, params, sampleLengthSamples) is called
createGranularCall ==
  /\ gPc = "params"
  /\ gPc' = "built"
  /\ \E v \in 0..7 : gVoice' = v
  /\ UNCHANGED <<gParams, gN, gPhasor, gTrain, gPitchRand, gPhase>>

\* the runtime computes one sample of the voice
grainSample ==
  /\ gPc \in {"built", "running"}
  /\ gN < MaxSamples
  /\ gPc' = "running"
  /\ gN' = gN + 1
  /\ LET phasor == IF gPc = "built" THEN 0
                   ELSE (gPhasor + voiceTriggerHzOf(gParams.density, gVoice)) % TrainDen
         train == IF 2 * phasor <= TrainDen THEN 1 ELSE 0
         rising == gPc = "running" /\ gTrain = 0 /\ train = 1
     IN /\ gPhasor' = phasor
        /\ gTrain' = train
        /\ IF rising
             THEN /\ \E r \in RandValues : gPitchRand' = r
                  /\ gPhase' = 0
             ELSE /\ gPitchRand' = gPitchRand
                  /\ gPhase' = IF gPc = "built" THEN 0
                               ELSE gPhase + pitchRatioVal(gParams, gPitchRand)
  /\ UNCHANGED <<gParams, gVoice>>

InitGrain ==
  /\ gPc = "params"
  /\ gParams \in GrainParamSets
  /\ gVoice = 0
  /\ gN = 0
  /\ gPhasor = 0
  /\ gTrain = 0
  /\ gPitchRand = 0
  /\ gPhase = 0

OnlyGrain ==
  UNCHANGED <<mixerVars, trigVars, resVars, melVars, pgVars, difVars, envVars,
              genLog, rmVars, shVars>>

CreateGranularCall == createGranularCall /\ OnlyGrain
GrainSample == grainSample /\ OnlyGrain

NextGrain ==
  \/ CreateGranularCall
  \/ GrainSample

InitGrainRun ==
  InitMixer /\ InitTrigger /\ InitGrain /\ InitResonator /\ InitMelodyIdle
    /\ InitPlayground /\ InitRest

SpecGrain == InitGrainRun /\ [][NextGrain]_vars

RECURSIVE HasDivByZero(_)
RECURSIVE AnyArgDivByZero(_, _)
AnyArgDivByZero(args, i) ==
  IF i = 0 THEN FALSE ELSE HasDivByZero(args[i]) \/ AnyArgDivByZero(args, i - 1)
HasDivByZero(g) ==
  \/ g.op = "div" /\ g.args[2].op = "const" /\ g.args[2].value = 0
  \/ AnyArgDivByZero(g.args, Len(g.args))

(***************************************************************************)
(* C8: for every grain voice and both envelope shapes, grainActive is      *)
(* false whenever the phase accumulator is >= 1, and the gated envelope    *)
(* (envelope x grainActive) is exactly 0 whenever phase >= 1.              *)
(***************************************************************************)
C8_InactiveOutsideWindow ==
  (gPc = "running" /\ gParams.pitch # 0 /\ gPhase >= grainSizeSamplesOf(gParams.grainSize))
    => /\ grainActiveVal(gPhase, grainSizeSamplesOf(gParams.grainSize)) = 0
       /\ gatedEnvVal(gParams.envelope, gPhase, grainSizeSamplesOf(gParams.grainSize)) = 0

(***************************************************************************)
(* C9: createGranular never builds a graph containing a division by zero   *)
(* or a non-positive grain length: for every params value, pitch = 0       *)
(* included, the grain length in samples of the built graph is > 0.        *)
(***************************************************************************)
C9_NoDivisionByZero ==
  gPc = "built" =>
    LET g == createGranular(<<"granular">>, gParams, GrainSampleLength)
    IN /\ ~HasDivByZero(g.left)
       /\ ~HasDivByZero(g.right)
       /\ \A r \in RandValues :
            /\ ~grainLengthInSamplesVal(gParams, r).nan
            /\ grainLengthInSamplesVal(gParams, r).val > 0

(***************************************************************************)
(* The resonator's graph evaluated by the signal runtime on one sample.    *)
(* A value is v / 1000^s, kept as the pair (v, s), so that products are    *)
(* exact.  The band-pass outputs and the input samples are whatever the    *)
(* filters and the source produce; the smoother moves towards its target   *)
(* and reaches it.                                                         *)
(***************************************************************************)
RECURSIVE Pow1000(_)
Pow1000(n) == IF n = 0 THEN 1 ELSE 1000 * Pow1000(n - 1)

Val(v, sc) == [v |-> v, s |-> sc]

AtScale(a, sc) == a.v * Pow1000(sc - a.s)

RECURSIVE Eval(_, _)
Eval(g, env) ==
  CASE g.op = "const" -> Val(g.value, 1)
    [] g.op = "in" -> Val(env.input[g.key[2]], 1)
    [] g.op = "bandpass" ->
         Val(env.band[g.args[1].key[2]]
               [CHOOSE i \in 1..3 : BandNames[i] = g.args[1].key[3]], 1)
    [] g.op = "smooth" -> Val(env.smooth, 1)
    [] g.op = "mul" ->
         LET a == Eval(g.args[1], env)
             b == Eval(g.args[2], env)
         IN Val(a.v * b.v, a.s + b.s)
    [] g.op = "add" ->
         LET a == Eval(g.args[1], env)
             b == Eval(g.args[2], env)
             sc == Max(a.s, b.s)
         IN Val(AtScale(a, sc) + AtScale(b, sc), sc)
    [] g.op = "sub" ->
         LET a == Eval(g.args[1], env)
             b == Eval(g.args[2], env)
             sc == Max(a.s, b.s)
         IN Val(AtScale(a, sc) - AtScale(b, sc), sc)

\* el.smooth: one step of the one-pole smoother towards its input x from its
\* state y; it covers half of the distance, in tenths, and then lands on x
smoothStep(y, x) ==
  IF x >= y
    THEN (IF x - y <= 100 THEN x ELSE y + ((x - y) \div 200) * 100)
    ELSE (IF y - x <= 100 THEN x ELSE y - ((y - x) \div 200) * 100)

ResonatorParamSets ==
  { [DefaultResonatorParams EXCEPT !.mix = m] : m \in {0, 300, 1000} }
  \cup { [bands |-> <<[freq |-> 110000, q |-> 50000, gain |-> 1000],
                      [freq |-> 330000, q |-> 100000, gain |-> 0],
                      [freq |-> 550000, q |-> 10000, gain |-> 500]>>,
          mix |-> 1000] }

InputSamples == {-300, 500}
BandSamples == {-400, 500}

\* the input handed to createResonator
resonatorInput == [left |-> el_in("input", "L"), right |-> el_in("input", "R")]

resonatorEnv == [input |-> rInput, band |-> rBand, smooth |-> rMix]

\* the output sample of a channel ("left" / "right")
resonatorOut(ch) ==
  Eval(createResonator(<<"resonator">>, rParams, resonatorInput)[ch], resonatorEnv)

\* createResonator is called with new params and the pair is rendered
resonatorRender ==
  /\ \E ps \in ResonatorParamSets : ps # rParams /\ rParams' = ps
  /\ UNCHANGED <<rMix, rInput, rBand>>

\* the runtime computes one sample
resonatorSample ==
  /\ rMix' = smoothStep(rMix, rParams.mix)
  /\ \E l \in InputSamples, r \in InputSamples : rInput' = [L |-> l, R |-> r]
  /\ \E bl \in [1..3 -> BandSamples], br \in [1..3 -> BandSamples] :
       rBand' = [L |-> bl, R |-> br]
  /\ UNCHANGED rParams

OnlyResonator ==
  UNCHANGED <<mixerVars, trigVars, grainVars, melVars, pgVars, difVars, envVars,
              genLog, rmVars, shVars>>

ResonatorRender == resonatorRender /\ OnlyResonator
ResonatorSample == resonatorSample /\ OnlyResonator

NextResonator ==
  \/ ResonatorRender
  \/ ResonatorSample

SpecResonator == Init /\ [][NextResonator]_vars

(***************************************************************************)
(* C10: for each channel of the resonator, with a settled mix of 0 the     *)
(* output equals the input for any band settings, with a settled mix of 1  *)
(* the output equals the sum of the three gain-scaled band-pass outputs    *)
(* with no dry term, and in general output = dry x (1 - mix) + wet x mix.  *)
(***************************************************************************)
\* sum of the gain-scaled band outputs of channel c ("L" / "R"), at scale 2
WetSum(c) ==
  rBand[c][1] * rParams.bands[1].gain + rBand[c][2] * rParams.bands[2].gain
    + rBand[c][3] * rParams.bands[3].gain

ChannelMixes(ch, c) ==
  LET out == AtScale(resonatorOut(ch), 3)
  IN /\ resonatorOut(ch).s <= 3
     /\ out = rInput[c] * (1000 - rMix) * 1000 + WetSum(c) * rMix
     /\ rMix = 0 => out = rInput[c] * 1000 * 1000
     /\ rMix = 1000 => out = WetSum(c) * 1000

C10_DryWetMix == ChannelMixes("left", "L") /\ ChannelMixes("right", "R")

\* the mix has settled at 1 on an input that differs between the channels
\* and from the wet sum
C10_Witness ==
  /\ rParams.mix = 1000 /\ rMix = 1000
  /\ rInput.L # rInput.R
  /\ WetSum("L") # rInput.L * 1000 /\ WetSum("L") # WetSum("R")

(***************************************************************************)
(* melody-synth.ts: the note data and the two event sequences, and the     *)
(* two sequencers as the signal runtime runs them, one step per period of  *)
(* the tick clock.  The clock and the loop trigger are exact phasors       *)
(* started together, so a period of the loop trigger is TOTAL_TICKS        *)
(* periods of the clock.                                                   *)
(***************************************************************************)
TICK_RATE == 640
TOTAL_TICKS == 15360
\* the loop trigger's rate is 1 / LOOP_DURATION
LOOP_DURATION == TOTAL_TICKS \div TICK_RATE

MaxLoops == 2

\* MELODY_NOTES as <<note, startTick, endTick>>
MelodyRows ==
  <<
     <<68, 0, 599>>,
     <<66, 600, 719>>,
     <<68, 720, 839>>,
     <<69, 840, 959>>,
     <<68, 960, 1079>>,
     <<66, 1080, 1199>>,
     <<64, 1200, 1919>>,
     <<64, 1920, 2519>>,
     <<63, 2520, 2639>>,
     <<64, 2640, 2759>>,
     <<66, 2760, 2879>>,
     <<64, 2880, 2999>>,
     <<63, 3000, 3119>>,
     <<61, 3120, 3839>>,
     <<68, 5760, 6359>>,
     <<66, 6360, 6479>>,
     <<68, 6480, 6599>>,
     <<71, 6600, 6719>>,
     <<68, 6720, 6839>>,
     <<66, 6840, 6959>>,
     <<64, 6960, 7679>>,
     <<64, 7680, 8279>>,
     <<63, 8280, 8399>>,
     <<64, 8400, 8519>>,
     <<68, 8520, 8639>>,
     <<64, 8640, 8759>>,
     <<63, 8760, 8879>>,
     <<61, 8880, 9599>>,
     <<68, 11520, 12119>>,
     <<66, 12120, 12239>>,
     <<68, 12240, 12359>>,
     <<73, 12360, 12479>>,
     <<68, 12480, 12599>>,
     <<66, 12600, 12719>>,
     <<64, 12720, 13439>>,
     <<64, 13440, 14039>>,
     <<63, 14040, 14159>>,
     <<64, 14160, 14279>>,
     <<71, 14280, 14399>>,
     <<64, 14400, 14519>>,
     <<63, 14520, 14639>>,
     <<61, 14640, 15359>>
  >>

\* the notes with every end one tick later
MELODY_NOTES_Stretched ==
  [i \in 1..Len(MelodyRows) |->
     [note |-> MelodyRows[i][1], startTick |-> MelodyRows[i][2],
      endTick |-> MelodyRows[i][3] + 1]]

MELODY_NOTES ==
  [i \in 1..Len(MelodyRows) |->
     [note |-> MelodyRows[i][1], startTick |-> MelodyRows[i][2],
      endTick |-> MelodyRows[i][3]]]

\* 440 * 2^((note - 69) / 12) in thousandths of a hertz, for the notes 61..73
midiToFreq(note) ==
  <<277183, 293665, 311127, 329628, 349228, 369994, 391995, 415305, 440000, 466164, 493883, 523251, 554365>>[note - 60]

buildFreqSeq ==
  [i \in 1..Len(MELODY_NOTES) |->
     [value |-> midiToFreq(MELODY_NOTES[i].note),
      tickTime |-> MELODY_NOTES[i].startTick]]

buildGateSeq ==
  [i \in 1..(2 * Len(MELODY_NOTES) + 1) |->
     IF i = 1 THEN [value |-> 0, tickTime |-> 0]
     ELSE IF i % 2 = 0
       THEN [value |-> 1, tickTime |-> MELODY_NOTES[i \div 2].startTick]
       ELSE [value |-> 0, tickTime |-> MELODY_NOTES[(i - 1) \div 2].endTick]]

FREQ_SEQ == buildFreqSeq
GATE_SEQ == buildGateSeq

\* the events of seq at tick time t, by their index
EventsAt(seq, t) == {i \in 1..Len(seq) : seq[i].tickTime = t}

\* the value the runtime keeps for tick time t, which has an event
EventValue(seq, t, dup) ==
  LET is == EventsAt(seq, t)
      i == IF dup = "first" THEN CHOOSE j \in is : \A h \in is : j <= h
                            ELSE CHOOSE j \in is : \A h \in is : j >= h
  IN seq[i].value

\* the value of the latest event at or before tick time t, 0 before any event
LookupValue(seq, t, dup) ==
  LET ts == {seq[i].tickTime : i \in {j \in 1..Len(seq) : seq[j].tickTime <= t}}
  IN IF ts = {} THEN 0
     ELSE EventValue(seq, CHOOSE u \in ts : \A w \in ts : w <= u, dup)

\* a sequencer deaf to its reset input
sparseqNoReset(seq, st, clockEdge, resetEdge, dup, impl) ==
  LET t == IF clockEdge THEN st.tickTime + 1 ELSE st.tickTime
      v == IF impl = "lookup" THEN LookupValue(seq, t, dup)
           ELSE IF EventsAt(seq, t) # {} THEN EventValue(seq, t, dup)
           ELSE st.value
  IN [tickTime |-> t, value |-> v]

\* el.sparseq({seq}, clock, reset) on one sample: a rising edge of reset
\* returns the sequencer to tick 0, a rising edge of the clock steps it
sparseq(seq, st, clockEdge, resetEdge, dup, impl) ==
  LET t == IF resetEdge THEN 0
           ELSE IF clockEdge THEN st.tickTime + 1 ELSE st.tickTime
      v == IF impl = "lookup" THEN LookupValue(seq, t, dup)
           ELSE IF EventsAt(seq, t) # {} THEN EventValue(seq, t, dup)
           ELSE st.value
  IN [tickTime |-> t, value |-> v]

\* el.train(1 / LOOP_DURATION) after n periods of el.train(TICK_RATE)
loopTrainAt(phasor) == IF 2 * phasor <= TOTAL_TICKS THEN 1 ELSE 0

\* the runtime processes the sample on which the tick clock rises
melodyTick ==
  /\ mN < MaxLoops * TOTAL_TICKS + TICK_RATE
  /\ LET phasor == IF mN = 0 THEN 0
                   ELSE (mLoopPhasor + TOTAL_TICKS \div (LOOP_DURATION * TICK_RATE))
                          % TOTAL_TICKS
         train == loopTrainAt(phasor)
         resetEdge == train = 1 /\ mLoopTrain = 0
         \* a sequencer built afresh on the first sample of every loop
         first == mN % TOTAL_TICKS = 0
     IN /\ mLoopPhasor' = phasor
        /\ mLoopTrain' = train
        /\ mFreqSeq' = sparseq(FREQ_SEQ, mFreqSeq, TRUE, resetEdge, mDup, mImpl)
        /\ mGateSeq' = sparseq(GATE_SEQ, mGateSeq, TRUE, resetEdge, mDup, mImpl)
        /\ mFirstFreq' = sparseq(FREQ_SEQ, IF first THEN FreshSeq ELSE mFirstFreq,
                                 TRUE, first, mDup, mImpl)
        /\ mFirstGate' = sparseq(GATE_SEQ, IF first THEN FreshSeq ELSE mFirstGate,
                                 TRUE, first, mDup, mImpl)
  /\ mN' = mN + 1
  /\ UNCHANGED <<mDup, mImpl>>

OnlyMelody ==
  UNCHANGED <<mixerVars, trigVars, grainVars, resVars, pgVars, difVars, envVars,
              genLog, rmVars, shVars>>

MelodyTick == melodyTick /\ OnlyMelody

InitMelody ==
  \E dup \in {"first", "last"}, impl \in {"lookup", "events"} :
    InitMelodyWith(dup, impl)

NextMelody == MelodyTick

InitMelodyRun ==
  InitMixer /\ InitTrigger /\ InitGrainIdle /\ InitResonator /\ InitMelody
    /\ InitPlayground /\ InitRest

SpecMelody == InitMelodyRun /\ [][NextMelody]_vars

(***************************************************************************)
(* C7: with the tick clock at 640 Hz and the reset pulse once per loop of  *)
(* 15360 ticks, the frequency and the gate at tick k of every loop         *)
(* iteration equal those at tick k of the first iteration.                 *)
(***************************************************************************)
C7_LoopRepeats ==
  /\ mFreqSeq = mFirstFreq
  /\ mGateSeq = mFirstGate
  /\ mN > 0 => mFreqSeq.tickTime = (mN - 1) % 15360

\* the second note has started in the second iteration
C7_Witness ==
  /\ mN = TOTAL_TICKS + 601
  /\ mFreqSeq.tickTime = 600
  /\ mFreqSeq.value = midiToFreq(66)
  /\ mGateSeq.value = 1

(***************************************************************************)
(* The granular/resonator playground page on top of the provider:          *)
(* handleStart with loadSamples, the runtime's load event, and the         *)
(* handlers of AudioPlayground.  A handler that returns at its guard       *)
(* changes nothing and is not a step.                                      *)
(***************************************************************************)
samplePathOf(id) == IF id = "acadia" THEN "/samples/acadia" ELSE "/samples/circle"

PitchValues == {1000, 2000}
EnvelopeValues == {"hann", "trapezoid"}

getGranularParams ==
  [DefaultGranularParams EXCEPT !.samplePath = samplePathOf(selectedSample),
                                !.pitch = pitch, !.envelope = envelope]

getResonatorParams == DefaultResonatorParams

\* el.table({path}, el.phasor(44100 / length)); the rate in thousandths
sampleSignalOf(id) ==
  el_table(samplePathOf(id), el_phasor(num((SAMPLE_RATE * 1000) \div sampleData[id])))

granularOf(params, id) == createGranular(<<"granular">>, params, sampleData[id])

resonatedOf(id) ==
  createResonator(<<"resonator">>, getResonatorParams,
                  [left |-> sampleSignalOf(id), right |-> sampleSignalOf(id)])

restOfProviderUnchanged == providerUnchanged /\ UNCHANGED vfs

\* handleStart up to the await inside initialize(); the welcome screen with
\* its button is shown while started is false
handleStartBegin ==
  /\ ~started
  /\ initializeBegin
  /\ startPc' = [startPc EXCEPT ![created + 1] = "initialize"]
  /\ UNCHANGED <<started, samplesLoaded, sampleData, vfsEntries, isPlaying,
                 isResonatorPlaying, selectedSample, pitch, envelope>>

\* initialize() resolves, handleStart sets started and enters loadSamples
handleStartResume(c) ==
  /\ startPc[c] = "initialize"
  /\ initializeResolve(c)
  /\ started' = TRUE
  /\ startPc' = [startPc EXCEPT ![c] = "loadSamples"]
  /\ UNCHANGED <<samplesLoaded, sampleData, vfsEntries, isPlaying,
                 isResonatorPlaying, selectedSample, pitch, envelope>>

\* loadSamples: one sample is fetched and decoded; after the last one the
\* entries are handed to updateVirtualFileSystem and samplesLoaded is set
sampleDecoded(c, id) ==
  /\ startPc[c] = "loadSamples"
  /\ id \notin vfsEntries[c]
  /\ sampleData' = [sampleData EXCEPT ![id] = SampleLengths[id]]
  /\ vfsEntries' = [vfsEntries EXCEPT ![c] = @ \cup {id}]
  /\ IF vfsEntries[c] \cup {id} = SampleIds
       THEN /\ updateVirtualFileSystem({samplePathOf(i) : i \in SampleIds})
            /\ samplesLoaded' = TRUE
            /\ startPc' = [startPc EXCEPT ![c] = "done"]
       ELSE UNCHANGED <<vfs, samplesLoaded, startPc>>
  /\ UNCHANGED <<ctxRef, coreRef, isReady, created, pendingInit, loaded, sources,
                 lastSubmitted, nSubmitted, calls, lastCall>>
  /\ UNCHANGED <<started, isPlaying, isResonatorPlaying, selectedSample, pitch,
                 envelope>>

playgroundLoad(c) ==
  /\ onLoad(c)
  /\ UNCHANGED pgVars

handleToggle ==
  /\ started /\ isReady /\ samplesLoaded /\ sampleData[selectedSample] # 0
  /\ IF isPlaying
       THEN removeSource("granular")
       ELSE setSource("granular", granularOf(getGranularParams, selectedSample),
                      DefaultGranularParams.gain)
  /\ isPlaying' = ~isPlaying
  /\ restOfProviderUnchanged
  /\ UNCHANGED <<started, samplesLoaded, sampleData, startPc, vfsEntries,
                 isResonatorPlaying, selectedSample, pitch, envelope>>

handleResonatorToggle ==
  /\ started /\ isReady /\ samplesLoaded /\ sampleData[selectedSample] # 0
  /\ IF isResonatorPlaying
       THEN removeSource("resonator")
       ELSE setSource("resonator", resonatedOf(selectedSample), 500)
  /\ isResonatorPlaying' = ~isResonatorPlaying
  /\ restOfProviderUnchanged
  /\ UNCHANGED <<started, samplesLoaded, sampleData, startPc, vfsEntries,
                 isPlaying, selectedSample, pitch, envelope>>

\* the pitch slider is moved (onValueChange)
handleSliderChange(v) ==
  /\ started
  /\ v # pitch
  /\ pitch' = v
  /\ UNCHANGED mixerVars
  /\ UNCHANGED <<started, samplesLoaded, sampleData, startPc, vfsEntries,
                 isPlaying, isResonatorPlaying, selectedSample, envelope>>

\* a commit that re-renders the granular source whether it plays or not
handleSliderCommitUnguarded ==
  /\ started
  /\ isReady /\ sampleData[selectedSample] # 0
  /\ setSource("granular", granularOf(getGranularParams, selectedSample),
               DefaultGranularParams.gain)
  /\ restOfProviderUnchanged
  /\ UNCHANGED pgVars

handleSliderCommit ==
  /\ started
  /\ isPlaying /\ isReady /\ sampleData[selectedSample] # 0
  /\ setSource("granular", granularOf(getGranularParams, selectedSample),
               DefaultGranularParams.gain)
  /\ restOfProviderUnchanged
  /\ UNCHANGED pgVars

handleResonatorSliderCommit ==
  /\ started
  /\ isResonatorPlaying /\ isReady /\ sampleData[selectedSample] # 0
  /\ setSource("resonator", resonatedOf(selectedSample), 500)
  /\ restOfProviderUnchanged
  /\ UNCHANGED pgVars

\* handleSampleChange(value): up to two setSource calls, one after the other
handleSampleChange(value) ==
  /\ started
  /\ value # selectedSample
  /\ selectedSample' = value
  /\ LET g == isPlaying /\ isReady
         r == isResonatorPlaying /\ isReady
         params == [getGranularParams EXCEPT !.samplePath = samplePathOf(value)]
         gEntry == [signal |-> granularOf(params, value),
                    gain |-> DefaultGranularParams.gain]
         rEntry == [signal |-> resonatedOf(value), gain |-> 500]
         m1 == IF g THEN MapSet(sources, "granular", gEntry) ELSE sources
     IN IF sampleData[value] = 0 \/ (~g /\ ~r)
          THEN UNCHANGED mixerVars
        ELSE IF g /\ ~r
          THEN /\ setSource("granular", gEntry.signal, gEntry.gain)
               /\ restOfProviderUnchanged
        ELSE IF r /\ ~g
          THEN /\ setSource("resonator", rEntry.signal, rEntry.gain)
               /\ restOfProviderUnchanged
        ELSE /\ calls + 1 < MaxCalls
             /\ calls' = calls + 2
             /\ lastCall' = [op |-> "set", id |-> "resonator", core |-> coreRef,
                             signal |-> rEntry.signal, gain |-> rEntry.gain,
                             had |-> MapHas(m1, "resonator"),
                             sizeBefore |-> Len(m1)]
             /\ sources' = MapSet(m1, "resonator", rEntry)
             /\ IF coreRef = 0
                  THEN UNCHANGED <<lastSubmitted, nSubmitted>>
                  ELSE /\ lastSubmitted' = [core |-> coreRef,
                                            left |-> mixPair(sources').left,
                                            right |-> mixPair(sources').right]
                       /\ nSubmitted' = nSubmitted + 2
             /\ restOfProviderUnchanged
  /\ UNCHANGED <<started, samplesLoaded, sampleData, startPc, vfsEntries,
                 isPlaying, isResonatorPlaying, pitch, envelope>>

handleEnvelopeChange(value) ==
  /\ started
  /\ value # envelope
  /\ envelope' = value
  /\ IF isPlaying /\ isReady /\ sampleData[selectedSample] # 0
       THEN /\ setSource("granular",
                         granularOf([getGranularParams EXCEPT !.envelope = value],
                                    selectedSample),
                         DefaultGranularParams.gain)
            /\ restOfProviderUnchanged
       ELSE UNCHANGED mixerVars
  /\ UNCHANGED <<started, samplesLoaded, sampleData, startPc, vfsEntries,
                 isPlaying, isResonatorPlaying, selectedSample, pitch>>

OnlyPlayground ==
  UNCHANGED <<trigVars, grainVars, resVars, melVars, difVars, envVars,
              genLog, rmVars, shVars>>

HandleStartBegin == handleStartBegin /\ OnlyPlayground
HandleStartResume == (\E c \in 1..MaxInits + 1 : handleStartResume(c)) /\ OnlyPlayground
SampleDecoded ==
  (\E c \in 1..MaxInits + 1, id \in SampleIds : sampleDecoded(c, id)) /\ OnlyPlayground
PlaygroundLoad == (\E c \in 1..MaxInits + 1 : playgroundLoad(c)) /\ OnlyPlayground
HandleToggle == handleToggle /\ OnlyPlayground
HandleResonatorToggle == handleResonatorToggle /\ OnlyPlayground
HandleSliderChange == (\E v \in PitchValues : handleSliderChange(v)) /\ OnlyPlayground
HandleSliderCommit == handleSliderCommit /\ OnlyPlayground
HandleResonatorSliderCommit == handleResonatorSliderCommit /\ OnlyPlayground
HandleSampleChange == (\E v \in SampleIds : handleSampleChange(v)) /\ OnlyPlayground
HandleEnvelopeChange ==
  (\E v \in EnvelopeValues : handleEnvelopeChange(v)) /\ OnlyPlayground

NextPlayground ==
  \/ HandleStartBegin
  \/ HandleStartResume
  \/ SampleDecoded
  \/ PlaygroundLoad
  \/ HandleToggle
  \/ HandleResonatorToggle
  \/ HandleSliderChange
  \/ HandleSliderCommit
  \/ HandleResonatorSliderCommit
  \/ HandleSampleChange
  \/ HandleEnvelopeChange

SpecPlayground == Init /\ [][NextPlayground]_vars

\* the sample paths a graph reads
RECURSIVE TablePaths(_)
TablePaths(g) ==
  (IF g.op = "table" THEN {g.key[1]} ELSE {})
    \cup UNION {TablePaths(g.args[i]) : i \in DOMAIN g.args}

SubmittedPaths == TablePaths(lastSubmitted.left) \cup TablePaths(lastSubmitted.right)

(***************************************************************************)
(* C6: in every interleaving of the start and sample-loading steps with    *)
(* the UI events, every sample path read by a submitted graph has been     *)
(* registered by updateVirtualFileSystem with the runtime the graph is     *)
(* submitted to.                                                           *)
(***************************************************************************)
C6_SamplesRegisteredBeforeUse ==
  lastSubmitted.core # 0 => SubmittedPaths \subseteq vfs[lastSubmitted.core]

(***************************************************************************)
(* A Diffuse World voice as the signal runtime runs it, in steps of        *)
(* 1/20 s: the clock el.train(triggerRate), the random value latched on    *)
(* the clock's rising edge, and the combined trigger.                      *)
(***************************************************************************)
MaxDiffuseSteps == 120

\* what el.rand can hold when the latch takes it, in thousandths
ChanceValues == {0, 80, 250, 1000}

\* the roster's options and the same with probability 0
DiffuseOptionSets ==
  {DiffuseRoster[i] : i \in 1..5}
    \cup {[DiffuseRoster[i] EXCEPT !.probability = 0] : i \in 1..5}

\* el.le(triggerChance, el.const({value: probability}))
shouldTriggerVal(chance, probability) == IF chance <= probability THEN 1 ELSE 0

\* el.and(clock, shouldTrigger)
triggerVal(clock, chance, probability) ==
  IF clock = 1 /\ shouldTriggerVal(chance, probability) = 1 THEN 1 ELSE 0

\* filterFreq = minFreq + randFreqNorm * (maxFreq - minFreq), in Hz
filterFreqVal(options, rand) ==
  options.minFreq + (rand * (options.maxFreq - options.minFreq)) \div 1000

\* what el.cycle can be at, in thousandths
CycleValues == {-1000, -500, 0, 1000}

\* sweepMod = 200 * el.cycle(sweepRate), in Hz
sweepModVal(cycle) == (200 * cycle) \div 1000

\* movingFilterFreq = filterFreq + sweepMod
movingFilterFreqVal(options, rand, cycle) ==
  filterFreqVal(options, rand) + sweepModVal(cycle)

diffuseSample ==
  /\ dN < MaxDiffuseSteps
  /\ dN' = dN + 1
  /\ LET phasor == IF dN = 0 THEN 0 ELSE (dPhasor + dOptions.triggerRate) % 20000
         clock == IF 2 * phasor <= 20000 THEN 1 ELSE 0
     IN /\ dPhasor' = phasor
        /\ dClock' = clock
        /\ IF clock = 1 /\ dClock = 0
             THEN \E r \in ChanceValues : dChance' = r
             ELSE dChance' = dChance
        /\ dTrigger' = triggerVal(clock, dChance', dOptions.probability)
        \* el.latch(trigger, el.rand(...)) takes a value when the trigger rises
        /\ IF dTrigger' = 1 /\ dTrigger = 0
             THEN \E r \in ChanceValues : dFreqRand' = r
             ELSE dFreqRand' = dFreqRand
  /\ UNCHANGED dOptions

OnlyDiffuse ==
  UNCHANGED <<mixerVars, trigVars, grainVars, resVars, melVars, pgVars, envVars,
              genLog, rmVars, shVars>>

DiffuseSample == diffuseSample /\ OnlyDiffuse

InitDiffuseRun ==
  InitMixer /\ InitTrigger /\ InitGrainIdle /\ InitResonator /\ InitMelodyIdle
    /\ InitPlayground /\ InitEnvelopeWith(TriggerEnvelopeOptions) /\ genLog = <<>>
    /\ InitResonatorMelodyIdle
    /\ \E o \in DiffuseOptionSets : InitDiffuseWith(o)

NextDiffuse == DiffuseSample

SpecDiffuse == InitDiffuseRun /\ [][NextDiffuse]_vars

(***************************************************************************)
(* C11: a Diffuse World voice with probability = 0 never fires: whatever   *)
(* value in [0,1] the latch holds, the combined trigger stays 0.           *)
(***************************************************************************)
C11_ZeroProbabilityNeverFires == dOptions.probability = 0 => dTrigger = 0

(***************************************************************************)
(* C12: the five Diffuse World voices have pairwise distinct trigger rates *)
(* and no voice's rate is an integer multiple of another voice's rate.     *)
(***************************************************************************)
C12_NoIntegerRatio ==
  \A j \in 1..5 :
    DiffuseRoster[j].key # dOptions.key
      => /\ dOptions.triggerRate # DiffuseRoster[j].triggerRate
         /\ dOptions.triggerRate % DiffuseRoster[j].triggerRate # 0
         /\ DiffuseRoster[j].triggerRate % dOptions.triggerRate # 0

(***************************************************************************)
(* envelope.ts: createEnvelope's sequencer as the signal runtime runs it.  *)
(* The page re-renders the graph with gate 0 or 1, which changes the value *)
(* of the keyed gate constant; the runtime steps, and a step may hold a    *)
(* rising edge of the 1000 Hz clock.  The gate constant is the sequencer's *)
(* reset input.                                                            *)
(***************************************************************************)
MaxEnvSteps == 9

EnvelopeOptionSets ==
  {[sustain |-> su, sustainTickTime |-> t] : su \in {150, 400}, t \in {2, 4}}

\* a sequence that starts at the sustain level and rises to the peak
envelopeSeqSwapped(options) ==
  <<[value |-> options.sustain, tickTime |-> 0],
    [value |-> 1000, tickTime |-> options.sustainTickTime]>>

\* the seq prop of createEnvelope's el.sparseq
envelopeSeq(options) ==
  <<[value |-> 1000, tickTime |-> 0],
    [value |-> options.sustain, tickTime |-> options.sustainTickTime]>>

\* createEnvelope({gate}) is rendered
envelopeRender(gate) ==
  /\ gate # eGate
  /\ eGate' = gate
  /\ UNCHANGED <<eOptions, eGateSeen, eSeq, eTarget, eSince, eN>>

\* the runtime processes samples up to and including the next rising edge
\* of the clock (clockEdge) or fewer (no edge)
envelopeStep(clockEdge) ==
  /\ eN < MaxEnvSteps
  /\ eN' = eN + 1
  /\ LET resetEdge == eGate = 1 /\ eGateSeen = 0
         st == sparseq(envelopeSeq(eOptions), eSeq, clockEdge, resetEdge, mDup, mImpl)
     IN /\ eSeq' = st
        /\ eTarget' = (eGate * st.value)
        /\ eSince' = IF resetEdge THEN 0
                     ELSE IF clockEdge THEN eSince + 1 ELSE eSince
  /\ eGateSeen' = eGate
  /\ UNCHANGED <<eOptions, eGate>>

OnlyEnvelope ==
  UNCHANGED <<mixerVars, trigVars, grainVars, resVars, melVars, pgVars, difVars,
              genLog, rmVars, shVars>>

EnvelopeRender == (\E g \in {0, 1} : envelopeRender(g)) /\ OnlyEnvelope
EnvelopeStep == (\E b \in BOOLEAN : envelopeStep(b)) /\ OnlyEnvelope

InitEnvelopeRun ==
  InitMixer /\ InitTrigger /\ InitGrainIdle /\ InitResonator /\ InitMelody
    /\ InitPlayground /\ InitDiffuseWith(DiffuseRoster[1]) /\ genLog = <<>>
    /\ InitResonatorMelodyIdle
    /\ \E o \in EnvelopeOptionSets : InitEnvelopeWith(o)

NextEnvelope ==
  \/ EnvelopeRender
  \/ EnvelopeStep

SpecEnvelope == InitEnvelopeRun /\ [][NextEnvelope]_vars

(***************************************************************************)
(* C13: the unsmoothed envelope target (gate x sequence value) is 1 from   *)
(* the gate's rising edge until sustainTickTime ticks of the clock have    *)
(* elapsed, the sustain level from then on while the gate stays high, 0    *)
(* whenever the gate is 0, and the tick count restarts from 0 on every     *)
(* rising edge of the gate.                                                *)
(***************************************************************************)
C13_EnvelopeTarget ==
  /\ eGateSeen = 0 => eTarget = 0
  /\ eGateSeen = 1 =>
       /\ eSeq.tickTime = eSince
       /\ eSince < eOptions.sustainTickTime => eTarget = 1000
       /\ eSince >= eOptions.sustainTickTime => eTarget = eOptions.sustain

\* the gate is high and the sustain level has been reached
C13_Witness ==
  /\ eGateSeen = 1
  /\ eSince >= eOptions.sustainTickTime
  /\ eTarget = eOptions.sustain

\* the nodes of a graph, as a set
RECURSIVE NodesOf(_)
NodesOf(g) == {g} \cup UNION {NodesOf(g.args[i]) : i \in DOMAIN g.args}

\* the node kinds that hold state between samples and are named by the rule
StatefulOps == {"rand", "bandpass", "latch", "accum"}

\* the keys of the keyed nodes of a graph (el.table keeps a path, not a key)
KeysOf(g) == {n.key : n \in {m \in NodesOf(g) : m.op # "table" /\ m.key # NoKey}}

(***************************************************************************)
(* C14: every node with continuity-relevant state built by the generators  *)
(* (random generators, filters, integrators, random latches) carries a     *)
(* key, and the set of keys is the same for any two parameter sets passed  *)
(* with the same instance key.                                             *)
(***************************************************************************)
C14_StatefulNodesKeyed ==
  LET g == createGranular(<<"granular">>, gParams, GrainSampleLength).left
      d == createGranular(<<"granular">>, DefaultGranularParams, GrainSampleLength).left
      r == createResonator(<<"resonator">>, rParams, resonatorInput).left
  IN /\ \A n \in NodesOf(g) \cup NodesOf(r) : n.op \in StatefulOps => n.key # NoKey
     /\ KeysOf(g) = KeysOf(d)

\* the keyed constants of a channel's graph: key without the channel, value
ChannelValues(g) ==
  {<<<<n.key[1]>> \o SubSeq(n.key, 3, Len(n.key)), n.value>> :
     n \in {m \in NodesOf(g) : m.op = "const" /\ m.key # NoKey}}

(***************************************************************************)
(* C15: createResonator processes the two channels independently: the left *)
(* output graph depends only on the left input and the params and the      *)
(* right output only on the right input and the params, both channels use  *)
(* the same band and mix values, and the node keys of the left channel are *)
(* disjoint from those of the right channel.                               *)
(***************************************************************************)
C15_ChannelsIndependent ==
  LET out == createResonator(<<"resonator">>, rParams, resonatorInput)
      otherR == createResonator(<<"resonator">>, rParams,
                                [resonatorInput EXCEPT !.right = el_in("other", "R")])
      otherL == createResonator(<<"resonator">>, rParams,
                                [resonatorInput EXCEPT !.left = el_in("other", "L")])
  IN /\ out.left = otherR.left
     /\ out.right = otherL.right
     /\ resonatorInput.right \notin NodesOf(out.left)
     /\ resonatorInput.left \notin NodesOf(out.right)
     /\ ChannelValues(out.left) = ChannelValues(out.right)
     /\ KeysOf(out.left) \cap KeysOf(out.right) = {}

\* the two channels carry different samples and give different outputs
C15_Witness ==
  /\ rInput.L # rInput.R
  /\ rBand.L # rBand.R
  /\ rMix = 300
  /\ AtScale(resonatorOut("left"), 3) # AtScale(resonatorOut("right"), 3)

\* the notes that sound at tick t
SoundingAt(t) ==
  {i \in 1..Len(MELODY_NOTES) :
     MELODY_NOTES[i].startTick <= t /\ t <= MELODY_NOTES[i].endTick}

(***************************************************************************)
(* C16: in the melody's note timeline no two notes overlap: every note has *)
(* startTick <= endTick, every note's endTick is strictly before the next  *)
(* note's startTick, and all ticks lie in [0, TOTAL_TICKS); so at the tick *)
(* the sequencers stand at, at most one note sounds.                       *)
(***************************************************************************)
C16_NotesDoNotOverlap ==
  /\ \A i \in 1..Len(MELODY_NOTES) :
       /\ MELODY_NOTES[i].startTick <= MELODY_NOTES[i].endTick
       /\ 0 <= MELODY_NOTES[i].startTick
       /\ MELODY_NOTES[i].endTick < 15360
       /\ i < Len(MELODY_NOTES) =>
            MELODY_NOTES[i].endTick < MELODY_NOTES[i + 1].startTick
  /\ Cardinality(SoundingAt(mGateSeq.tickTime)) <= 1

\* the sequencers stand on the first tick of the second phrase
C16_Witness ==
  /\ mGateSeq.tickTime = 5760
  /\ SoundingAt(mGateSeq.tickTime) = {15}
  /\ mGateSeq.value = 1

\* the rates of the el.train nodes of voice i of the graph createGranular
\* builds, in 1/8000 Hz
TrainRatesOf(params, i) ==
  {n.args[1].value :
     n \in {m \in NodesOf(createGrainVoice(<<"granular", VoiceNames[i + 1]>>, i, params,
                                           GrainSampleLength).left) :
              m.op = "train"}}

(***************************************************************************)
(* C17: for any density > 0, grain voice i (0..7) triggers at              *)
(* density/8 x RATE_MULTIPLIERS[i], and the trigger rates of the 8 voices  *)
(* are pairwise distinct.                                                  *)
(***************************************************************************)
C17_VoiceRatesDistinct ==
  (gPc = "built" /\ gParams.density > 0) =>
    /\ \A i \in 0..7 :
         TrainRatesOf(gParams, i) =
           {gParams.density * <<1000, 1030, 970, 1070, 930, 1110, 890, 1010>>[i + 1]}
    /\ \A i, j \in 0..7 :
         i # j => TrainRatesOf(gParams, i) \cap TrainRatesOf(gParams, j) = {}

\* createGranular has been called with the lowest density of the slider
C17_Witness ==
  /\ gPc = "built"
  /\ gParams.density = 1
  /\ gVoice = 7

(***************************************************************************)
(* The generators called one after the other, as the pages do.  The        *)
(* modules granular.ts and resonator.ts have no variable that a call       *)
(* writes, so a call reads its arguments and the module constants only.    *)
(***************************************************************************)
MaxGenCalls == 3

GenGranularParams ==
  {DefaultGranularParams, [DefaultGranularParams EXCEPT !.pitch = 2000],
   [DefaultGranularParams EXCEPT !.envelope = "trapezoid"]}

callCreateGranular(params, len) ==
  /\ Len(genLog) < MaxGenCalls
  /\ genLog' = Append(genLog, [gen |-> "createGranular", params |-> params, len |-> len,
                               out |-> createGranular(<<"granular">>, params, len)])

callCreateResonator(params) ==
  /\ Len(genLog) < MaxGenCalls
  /\ genLog' = Append(genLog, [gen |-> "createResonator", params |-> params, len |-> 0,
                               out |-> createResonator(<<"resonator">>, params,
                                                       resonatorInput)])

OnlyGenerators ==
  UNCHANGED <<mixerVars, trigVars, grainVars, resVars, melVars, pgVars, difVars,
              envVars, rmVars, shVars>>

CallCreateGranular ==
  (\E ps \in GenGranularParams, id \in SampleIds :
     callCreateGranular(ps, SampleLengths[id])) /\ OnlyGenerators
CallCreateResonator ==
  (\E ps \in ResonatorParamSets : callCreateResonator(ps)) /\ OnlyGenerators

NextGenerators ==
  \/ CallCreateGranular
  \/ CallCreateResonator

SpecGenerators == Init /\ [][NextGenerators]_vars

Reorderings(m) ==
  {s \in [DOMAIN m -> {m[i] : i \in DOMAIN m}] :
     {s[i] : i \in DOMAIN s} = {m[i] : i \in DOMAIN m}}

MixSamples == {-300, 500}

RECURSIVE MixValue(_, _)
MixValue(g, x) ==
  CASE g.op = "add" -> MixValue(g.args[1], x) + MixValue(g.args[2], x)
    [] g.op = "mul" -> (MixValue(g.args[1], x) * MixValue(g.args[2], x)) \div 1000
    [] g.op = "smooth" -> MixValue(g.args[2], x)
    [] g.op = "in" -> x[g.key[1]]
    [] OTHER -> g.value

SameChannel(g, h) ==
  /\ MixBase(g) = MixBase(h)
  /\ MixCount(g) = MixCount(h)
  /\ MixTerms(g) = MixTerms(h)
  /\ \A x \in [SignalNames -> MixSamples] : MixValue(g, x) = MixValue(h, x)

(***************************************************************************)
(* C19: the submitted mix does not depend on the order in which the        *)
(* sources were added: for the Map a setSource/removeSource call left,     *)
(* every insertion order of the same id -> {signal, gain} entries gives    *)
(* channels with the same base, the same gain-scaled terms and the same    *)
(* sum as the pair that was submitted.                                     *)
(***************************************************************************)
C19_OrderIndependent ==
  (lastCall.op \in {"set", "remove"} /\ lastCall.core # 0)
    => \A m2 \in Reorderings(sources) :
         /\ SameChannel(mixPair(m2).left, lastSubmitted.left)
         /\ SameChannel(mixPair(m2).right, lastSubmitted.right)

\* two sources with different signals and gains are mixed, and the other
\* insertion order nests the operands of the sum the other way round
C19_Witness ==
  /\ lastCall.op = "set" /\ lastCall.core # 0 /\ Len(sources) = 2
  /\ sources[1].entry.gain # sources[2].entry.gain
  /\ sources[1].entry.signal # sources[2].entry.signal
  /\ mixPair(<<sources[2], sources[1]>>).left # lastSubmitted.left

(***************************************************************************)
(* C20: in the trigger playground, when the last pointer event was a       *)
(* pointer-up or pointer-leave that followed a pointer-down which          *)
(* scheduled its animation-frame callback, and no callback is pending,     *)
(* the last submitted gate is 0 and isGateOpen is false: a released        *)
(* pointer never leaves the note held.                                     *)
(***************************************************************************)
C20_ReleasedPointerClosesGate ==
  (lastPointer = "up" /\ pointerDowns > 0 /\ rafQueue = <<>>)
    => /\ gateLog[Len(gateLog)].gate = 0
       /\ ~isGateOpen

(***************************************************************************)
(* C22: however many times and however concurrently initialize() is        *)
(* called, at most one AudioContext and one WebRenderer are created, and   *)
(* every call resolves to the same AudioContext (the one in ctxRef).       *)
(***************************************************************************)
C22_SingleContext ==
  /\ created <= 1
  /\ \A c \in pendingInit : ctxRef \in {0, c}

(***************************************************************************)
(* C27: in the granular/resonator playground, after every handler,         *)
(* 'granular' is in the source map exactly when isPlaying is true and      *)
(* 'resonator' exactly when isResonatorPlaying is true.                    *)
(***************************************************************************)
C27_SourcesMatchFlags ==
  /\ MapHas(sources, "granular") <=> isPlaying
  /\ MapHas(sources, "resonator") <=> isResonatorPlaying

\* exactly one source is playing, and a slider commit or a sample or
\* envelope change has just re-rendered it
C27_Witness ==
  /\ lastCall.op = "set" /\ lastCall.had /\ lastCall.sizeBefore = 1
  /\ isPlaying # isResonatorPlaying

(***************************************************************************)
(* C30: for every phase in [0,1] the trapezoid grain envelope equals       *)
(* phase/0.1 on [0, 0.1], 1 on [0.1, 0.9] and (1 - phase)/0.1 on [0.9, 1]; *)
(* it stays within [0,1] and is 0 at phase 0 and at phase 1.  The phase is *)
(* the one the running grain voice is at, a / b in lowest terms.           *)
(***************************************************************************)
C30_TrapezoidShape ==
  LET gss == grainSizeSamplesOf(gParams.grainSize)
      d == GCD(gPhase, gss)
      a == gPhase \div d
      b == gss \div d
      v == trapezoidVal(a, b)
  IN (gPc = "running" /\ gPhase <= gss) =>
       /\ 10 * a <= b => v = (10000 * a) \div b
       /\ (b <= 10 * a /\ 10 * a <= 9 * b) => v = 1000
       /\ 9 * b <= 10 * a => v = (10000 * (b - a)) \div b
       /\ 0 <= v /\ v <= 1000
       /\ a = 0 => v = 0
       /\ a = b => v = 0

\* a grain has passed through its attack and sustain and is on the release
\* ramp, strictly between 1 and 0
C30_Witness ==
  LET gss == grainSizeSamplesOf(gParams.grainSize)
  IN /\ gPc = "running" /\ gParams.envelope = "trapezoid"
     /\ 9 * gss < 10 * gPhase /\ gPhase < gss
     /\ envelopeVal("trapezoid", gPhase, gss) \in 1..999

(***************************************************************************)
(* C26: in the melody gate sequence 0-events and 1-events alternate with   *)
(* non-decreasing tick times, and every note onset is a rising edge of the *)
(* running gate sequencer: on the tick a note starts the gate is 1, and on *)
(* the tick before (the last tick of the loop for the first note) it is 0. *)
(***************************************************************************)
C26_OnsetsAreRisingEdges ==
  /\ \A i \in 1..Len(GATE_SEQ) : GATE_SEQ[i].value = (i + 1) % 2
  /\ \A i \in 1..(Len(GATE_SEQ) - 1) : GATE_SEQ[i].tickTime <= GATE_SEQ[i + 1].tickTime
  /\ mN > 0 =>
       \A i \in 1..Len(MELODY_NOTES) :
         /\ mGateSeq.tickTime = MELODY_NOTES[i].startTick => mGateSeq.value = 1
         /\ mGateSeq.tickTime = (MELODY_NOTES[i].startTick + 15359) % 15360
              => mGateSeq.value = 0

(***************************************************************************)
(* C29: for every voice of the Diffuse World roster that has fired, every  *)
(* latched random value and every value of the +/-200 Hz sweep, the        *)
(* latched centre frequency lies in [minFreq, maxFreq] and the swept       *)
(* band-pass centre frequency is strictly positive.                        *)
(***************************************************************************)
C29_FilterFrequencyPositive ==
  dTrigger = 1 =>
    /\ dOptions.minFreq <= filterFreqVal(dOptions, dFreqRand)
    /\ filterFreqVal(dOptions, dFreqRand) <= dOptions.maxFreq
    /\ \A c \in CycleValues : movingFilterFreqVal(dOptions, dFreqRand, c) > 0

(***************************************************************************)
(* resonator-melody.ts.  Times are in tenths of a second, frequencies in   *)
(* thousandths of a hertz.  The hash of pick is a 32-bit word kept as its  *)
(* two 16-bit halves: the sum band * 7919 + period * 104729 is reduced     *)
(* modulo 2^32 by the bitwise operator, xor-ed with 0x5bd1e995 and made    *)
(* unsigned by >>> 0.                                                      *)
(***************************************************************************)
MELODY_MIDI == <<68, 66, 69, 64, 63, 61, 71, 73>>

HOLD_DURATIONS == <<45, 61, 53>>

TimeScale == 10

RECURSIVE BitXor(_, _, _)
BitXor(a, b, n) ==
  IF n = 0 THEN 0
  ELSE (((a % 2) + (b % 2)) % 2) + 2 * BitXor(a \div 2, b \div 2, n - 1)

\* ((band * 7919 + period * 104729) ^ 0x5bd1e995) >>> 0; 104729 is
\* 65536 + 39193, 0x5bd1 is 23505 and 0xe995 is 59797
pickHash(band, period) ==
  LET s == band * 7919 + period * 39193
      lo == s % 65536
      hi == (period + (s \div 65536)) % 65536
  IN [hi |-> BitXor(hi, 23505, 16), lo |-> BitXor(lo, 59797, 16)]

\* pick with the hash left signed (no >>> 0): the remainder of a negative
\* hash is negative and indexes nothing; 0 stands for undefined
pickSigned(band, period) ==
  LET h == pickHash(band, period)
      idx == IF h.hi >= 32768 THEN 0 - ((8 - (h.lo % 8)) % 8) ELSE h.lo % 8
  IN IF idx < 0 THEN 0 ELSE MELODY_MIDI[idx + 1]

\* MELODY_MIDI[hash % MELODY_MIDI.length]
pick(band, period) ==
  MELODY_MIDI[(pickHash(band, period).lo % Len(MELODY_MIDI)) + 1]

\* freq * 2^(cents / 1200) for the two detunings used: 2^(7/1200) is
\* 1.0041 and 2^(-5/1200) is 0.9971 to four places
detuneCents(freq, cents) ==
  ((freq \div 10) * (IF cents = 7 THEN 10041 ELSE 9971)) \div 1000

\* Math.floor(Math.max(0, time) / dur)
periodAt(time, dur) == Max(0, time) \div (dur * TimeScale)

getResonatorParamsAtTime(time) ==
  LET bandFreqs == [i \in 1..3 |->
                      midiToFreq(pick(i - 1, periodAt(time, HOLD_DURATIONS[i])))]
  IN [bands |-> <<[freq |-> bandFreqs[1], q |-> 80000, gain |-> 800],
                  [freq |-> detuneCents(bandFreqs[2] * 2, 7), q |-> 80000,
                   gain |-> 600],
                  [freq |-> detuneCents(bandFreqs[3] * 3, -5), q |-> 80000,
                   gain |-> 400]>>,
      mix |-> 700]

\* the latest, not the earliest, of the bands' next changes
getNextChangeTimeLatest(time) ==
  LET next(i) == (periodAt(time, HOLD_DURATIONS[i]) + 1) * HOLD_DURATIONS[i] * TimeScale
  IN Max(next(1), Max(next(2), next(3)))

getNextChangeTime(time) ==
  LET next(i) == (periodAt(time, HOLD_DURATIONS[i]) + 1) * HOLD_DURATIONS[i] * TimeScale
  IN Min(next(1), Min(next(2), next(3)))

(***************************************************************************)
(* pick applied to consecutive periods of one band.                        *)
(***************************************************************************)
MaxPickSteps == 24

\* the first periods: from 0, across the sum reaching 2^31 (period 20506)
\* and across its wrap at 2^32 (period 41011)
PickPeriodStarts == {0, 20495, 41000}

pickNext ==
  /\ \E st \in PickPeriodStarts : pkPeriod < st + MaxPickSteps /\ pkPeriod >= st
  /\ pkPeriod' = pkPeriod + 1
  /\ pkWindow' = (IF Len(pkWindow) = 8 THEN Tail(pkWindow) ELSE pkWindow)
                    \o <<pick(pkBand, pkPeriod + 1)>>
  /\ UNCHANGED <<pkBand, rtTime, rtNext, rtParams>>

OnlyResonatorMelody ==
  UNCHANGED <<mixerVars, trigVars, grainVars, resVars, melVars, pgVars, difVars,
              envVars, genLog, shVars>>

PickNext == pickNext /\ OnlyResonatorMelody

InitPickRun ==
  InitMixer /\ InitTrigger /\ InitGrainIdle /\ InitResonator /\ InitMelodyIdle
    /\ InitPlayground /\ InitDiffuseWith(DiffuseRoster[1])
    /\ InitEnvelopeWith(TriggerEnvelopeOptions) /\ genLog = <<>> /\ InitTimesIdle
    /\ InitShoreline
    /\ \E b \in 0..2, st \in PickPeriodStarts :
         /\ pkBand = b
         /\ pkPeriod = st
         /\ pkWindow = <<pick(b, st)>>

NextPick == PickNext

SpecPick == InitPickRun /\ [][NextPick]_vars

(***************************************************************************)
(* C28: for every band b in {0,1,2} and every period, pick(b, p), with the *)
(* hash wrapped to 32 bits, is a note of MELODY_MIDI, and over any 8       *)
(* consecutive periods a band selects each of the 8 melody notes exactly   *)
(* once.                                                                   *)
(***************************************************************************)
C28_PickIsPermutation ==
  /\ \A i \in DOMAIN pkWindow : \E j \in DOMAIN MELODY_MIDI : pkWindow[i] = MELODY_MIDI[j]
  /\ Len(pkWindow) = 8 =>
       \A j \in DOMAIN MELODY_MIDI :
         Cardinality({i \in DOMAIN pkWindow : pkWindow[i] = MELODY_MIDI[j]}) = 1

\* eight consecutive periods across the wrap of the sum at 2^32
C28_Witness ==
  /\ Len(pkWindow) = 8 /\ pkPeriod = 41014 /\ pkBand = 2
  /\ pickHash(pkBand, pkPeriod).hi < pickHash(pkBand, pkPeriod - 7).hi

(***************************************************************************)
(* getNextChangeTime and getResonatorParamsAtTime applied to a time that   *)
(* advances by a tenth of a second, from below 0.                          *)
(***************************************************************************)
MaxTime == 1000

TimeStarts == {-25, -1, 0}

timeStep ==
  /\ rtTime < MaxTime
  /\ rtTime' = rtTime + 1
  /\ rtNext' = getNextChangeTime(rtTime + 1)
  /\ rtParams' = getResonatorParamsAtTime(rtTime + 1)
  /\ UNCHANGED <<pkBand, pkPeriod, pkWindow>>

TimeStep == timeStep /\ OnlyResonatorMelody

InitTimesRun ==
  InitMixer /\ InitTrigger /\ InitGrainIdle /\ InitResonator /\ InitMelodyIdle
    /\ InitPlayground /\ InitDiffuseWith(DiffuseRoster[1])
    /\ InitEnvelopeWith(TriggerEnvelopeOptions) /\ genLog = <<>> /\ InitPickWith(0, 0)
    /\ InitShoreline
    /\ \E t \in TimeStarts :
         /\ rtTime = t
         /\ rtNext = getNextChangeTime(t)
         /\ rtParams = getResonatorParamsAtTime(t)

NextTimes == TimeStep

SpecTimes == InitTimesRun /\ [][NextTimes]_vars

\* the positive multiples of a band's hold duration, in tenths of a second
ChangeTimes ==
  {k * HOLD_DURATIONS[i] * TimeScale : k \in 1..5, i \in 1..3}

BandFreqs(params) == [i \in 1..3 |-> params.bands[i].freq]

(***************************************************************************)
(* C25: for every time t >= 0, getNextChangeTime(t) is strictly greater    *)
(* than t and is the smallest multiple of any band's hold duration that is *)
(* greater than t, and getResonatorParamsAtTime returns the same band      *)
(* frequencies for every time in [t, getNextChangeTime(t)); for t < 0 both *)
(* functions behave as for t = 0.                                          *)
(***************************************************************************)
C25_NextChangeTime ==
  /\ rtTime >= 0 =>
       /\ rtNext > rtTime
       /\ rtNext \in ChangeTimes
       /\ \A c \in ChangeTimes : c > rtTime => rtNext <= c
       /\ \A u \in rtTime..(rtNext - 1) :
            BandFreqs(getResonatorParamsAtTime(u)) = BandFreqs(rtParams)
  /\ rtTime < 0 =>
       /\ rtNext = getNextChangeTime(0)
       /\ rtParams = getResonatorParamsAtTime(0)

\* the time stands between the second band's change at 61 s and the
\* first band's second change at 90 s, after the third band's at 53 s
C25_Witness ==
  /\ rtTime = 61 * TimeScale /\ rtNext = 90 * TimeScale
  /\ BandFreqs(rtParams)[2] # BandFreqs(getResonatorParamsAtTime(rtTime - 1))[2]
  /\ BandFreqs(rtParams)[1] = BandFreqs(getResonatorParamsAtTime(rtTime - 1))[1]

(***************************************************************************)
(* The shoreline scene's hook useShorelineAudio on top of the provider:    *)
(* start() with its awaits, the update loop on animation frames, the       *)
(* effect whose cleanup runs on unmount and whenever the context value     *)
(* `audio` changes, and the runtime's load event that changes it.          *)
(***************************************************************************)
MaxFrames == 5

\* the time between two animation-frame callbacks, in tenths of a second
FrameGaps == {1, 81, 449}

SAMPLE_PATH == "/samples/acadia"

\* el.table({path}, el.phasor(44100 / sampleLength)) through createResonator
shResonated(params, len) ==
  LET sampleSignal == el_table(SAMPLE_PATH, el_phasor(num((SAMPLE_RATE * 1000) \div len)))
  IN createResonator(<<"resonator">>, params,
                     [left |-> sampleSignal, right |-> sampleSignal])

\* audio.setSource("resonator", resonated, { gain: 0.5 })
shSetSource(params, len) ==
  /\ sources' = MapSet(sources, "resonator",
                        [signal |-> shResonated(params, len), gain |-> 500])
  /\ renderMix(sources')
  /\ shParams' = params

\* the cleanup of the effect
shCleanup ==
  /\ rafPending' = IF rafRef # 0 /\ rafPending = rafRef THEN 0 ELSE rafPending
  /\ IF startedRef
       THEN /\ sources' = MapDelete(sources, "resonator")
            /\ renderMix(sources')
       ELSE UNCHANGED <<sources, lastSubmitted, nSubmitted>>

\* start() up to the await inside initialize()
shStart ==
  /\ shMounted /\ ~startedRef
  /\ startedRef' = TRUE
  /\ IF ctxRef # 0
       THEN /\ shPc' = "fetch"
            /\ UNCHANGED mixerVars
       ELSE /\ initializeBegin
            /\ shPc' = "initialize"
  /\ UNCHANGED <<shMounted, sampleLength, rafRef, rafCount, rafPending, startTimeRef,
                 nextChangeRef, shNow, shElapsed, shParams, shFrames>>

\* initialize() resolves; start() goes on to fetch the sample
shInitialized(c) ==
  /\ shPc = "initialize"
  /\ initializeResolve(c)
  /\ shPc' = "fetch"
  /\ UNCHANGED <<shMounted, startedRef, sampleLength, rafRef, rafCount, rafPending,
                 startTimeRef, nextChangeRef, shNow, shElapsed, shParams, shFrames>>

\* fetch and arrayBuffer resolve; start() goes on to decodeAudioData
shFetched ==
  /\ shPc = "fetch"
  /\ shPc' = "decode"
  /\ UNCHANGED mixerVars
  /\ UNCHANGED <<shMounted, startedRef, sampleLength, rafRef, rafCount, rafPending,
                 startTimeRef, nextChangeRef, shNow, shElapsed, shParams, shFrames>>

\* decodeAudioData resolves; the rest of start() runs to its end
shDecoded ==
  /\ shPc = "decode"
  /\ shPc' = "done"
  /\ sampleLength' = SampleLengths.acadia
  /\ updateVirtualFileSystem({SAMPLE_PATH})
  /\ shSetSource(getResonatorParamsAtTime(0), SampleLengths.acadia)
  /\ startTimeRef' = shNow
  /\ nextChangeRef' = getNextChangeTime(0)
  /\ rafCount' = rafCount + 1
  /\ rafRef' = rafCount + 1
  /\ rafPending' = rafCount + 1
  /\ UNCHANGED <<ctxRef, coreRef, isReady, created, pendingInit, loaded, calls, lastCall>>
  /\ UNCHANGED <<shMounted, startedRef, shNow, shElapsed, shFrames>>

\* an update loop that takes every hold to last 45 s from the last change
updateResonatorFixedHold(gap) ==
  /\ rafPending # 0
  /\ shFrames < MaxFrames
  /\ shFrames' = shFrames + 1
  /\ shNow' = shNow + gap
  /\ IF sampleLength = 0
       THEN /\ rafPending' = 0
            /\ UNCHANGED <<sources, lastSubmitted, nSubmitted, shParams, shElapsed,
                           nextChangeRef, rafRef, rafCount>>
       ELSE LET elapsed == (shNow + gap) - startTimeRef
            IN /\ shElapsed' = elapsed
               /\ rafCount' = rafCount + 1
               /\ rafRef' = rafCount + 1
               /\ rafPending' = rafCount + 1
               /\ IF elapsed < nextChangeRef
                    THEN UNCHANGED <<sources, lastSubmitted, nSubmitted, shParams,
                                     nextChangeRef>>
                    ELSE /\ nextChangeRef' = elapsed + HOLD_DURATIONS[1] * TimeScale
                         /\ shSetSource(getResonatorParamsAtTime(elapsed), sampleLength)
  /\ UNCHANGED <<ctxRef, coreRef, isReady, created, pendingInit, loaded, vfs, calls,
                 lastCall>>
  /\ UNCHANGED <<shMounted, startedRef, shPc, sampleLength, startTimeRef>>

\* the scheduled animation-frame callback runs, gap after the previous one
updateResonator(gap) ==
  /\ rafPending # 0
  /\ shFrames < MaxFrames
  /\ shFrames' = shFrames + 1
  /\ shNow' = shNow + gap
  /\ IF sampleLength = 0
       THEN /\ rafPending' = 0
            /\ UNCHANGED <<sources, lastSubmitted, nSubmitted, shParams, shElapsed,
                           nextChangeRef, rafRef, rafCount>>
       ELSE LET elapsed == (shNow + gap) - startTimeRef
            IN /\ shElapsed' = elapsed
               /\ rafCount' = rafCount + 1
               /\ rafRef' = rafCount + 1
               /\ rafPending' = rafCount + 1
               /\ IF elapsed < nextChangeRef
                    THEN UNCHANGED <<sources, lastSubmitted, nSubmitted, shParams,
                                     nextChangeRef>>
                    ELSE /\ nextChangeRef' = getNextChangeTime(elapsed)
                         /\ shSetSource(getResonatorParamsAtTime(elapsed), sampleLength)
  /\ UNCHANGED <<ctxRef, coreRef, isReady, created, pendingInit, loaded, vfs, calls,
                 lastCall>>
  /\ UNCHANGED <<shMounted, startedRef, shPc, sampleLength, startTimeRef>>

\* the runtime's load event: setIsReady(true) gives the provider a new
\* context value, and the effect, which depends on it, runs its cleanup
shLoad(c) ==
  /\ c \in 1..created
  /\ c \notin loaded
  /\ loaded' = loaded \cup {c}
  /\ isReady' = TRUE
  /\ IF shMounted /\ ~isReady
       THEN shCleanup
       ELSE UNCHANGED <<sources, lastSubmitted, nSubmitted, rafPending>>
  /\ UNCHANGED <<ctxRef, coreRef, created, pendingInit, vfs, calls, lastCall>>
  /\ UNCHANGED <<shMounted, startedRef, shPc, sampleLength, rafRef, rafCount,
                 startTimeRef, nextChangeRef, shNow, shElapsed, shParams, shFrames>>

\* the component unmounts: the effect's cleanup runs
shUnmount ==
  /\ shMounted
  /\ shMounted' = FALSE
  /\ shCleanup
  /\ UNCHANGED <<ctxRef, coreRef, isReady, created, pendingInit, loaded, vfs, calls,
                 lastCall>>
  /\ UNCHANGED <<startedRef, shPc, sampleLength, rafRef, rafCount, startTimeRef,
                 nextChangeRef, shNow, shElapsed, shParams, shFrames>>

OnlyShoreline ==
  UNCHANGED <<trigVars, grainVars, resVars, melVars, pgVars, difVars, envVars,
              genLog, rmVars>>

ShStart == shStart /\ OnlyShoreline
ShInitialized == (\E c \in 1..MaxInits + 1 : shInitialized(c)) /\ OnlyShoreline
ShFetched == shFetched /\ OnlyShoreline
ShDecoded == shDecoded /\ OnlyShoreline
UpdateResonator == (\E gap \in FrameGaps : updateResonator(gap)) /\ OnlyShoreline
ShLoad == (\E c \in 1..MaxInits + 1 : shLoad(c)) /\ OnlyShoreline
ShUnmount == shUnmount /\ OnlyShoreline

NextShoreline ==
  \/ ShStart
  \/ ShInitialized
  \/ ShFetched
  \/ ShDecoded
  \/ UpdateResonator
  \/ ShLoad
  \/ ShUnmount

SpecShoreline == Init /\ [][NextShoreline]_vars

(***************************************************************************)
(* C21: after the shoreline hook has unmounted, at whatever point of       *)
(* start()'s asynchronous steps, once those steps have finished the        *)
(* 'resonator' source is absent from the mixer and no animation-frame      *)
(* update is scheduled that could re-add it.                               *)
(***************************************************************************)
C21_UnmountStopsResonator ==
  (~shMounted /\ shPc \in {"idle", "done"})
    => /\ ~MapHas(sources, "resonator")
       /\ rafPending = 0

(***************************************************************************)
(* C23: while the shoreline hook stays mounted, once start() has added     *)
(* 'resonator' to the mixer the source remains present and the update loop *)
(* keeps running: no event other than unmount removes the source or        *)
(* cancels the pending animation frame.                                    *)
(***************************************************************************)
C23_MountedKeepsResonator ==
  (shMounted /\ shPc = "done")
    => /\ MapHas(sources, "resonator")
       /\ rafPending # 0

(***************************************************************************)
(* C24: in the shoreline update loop, at the end of every animation-frame  *)
(* callback the resonator params last passed to setSource equal            *)
(* getResonatorParamsAtTime(elapsed) for that frame's elapsed time.        *)
(***************************************************************************)
C24_LazyRenderMatchesEager ==
  shFrames > 0 => shParams = getResonatorParamsAtTime(shElapsed)

\* frames were skipped and frames re-rendered: the loop is past the second
\* band's first change at 61 s and waits for the first band's at 90 s
C24_Witness ==
  /\ shFrames >= 4 /\ shElapsed >= 61 * TimeScale
  /\ nextChangeRef = 90 * TimeScale
  /\ shParams # getResonatorParamsAtTime(0)
  /\ shParams # getResonatorParamsAtTime(53 * TimeScale)

=============================================================================
